---- MODULE Spec2Model ----
(***************************************************************************)
(* A model of iomanager/iomanager.py: the IOProcessor object (required,   *)
(* optional, unlimited and the two function tables), its verify and coerce *)
(* methods and the pure functions they are built from.                     *)
(*                                                                         *)
(* Python objects are records with a kind field k:                         *)
(*   [k |-> "type", t |-> name]   a class object: a type handle (int, str),*)
(*                                or one of the sentinel classes AnyType,  *)
(*                                NotProvided, NoDifference                *)
(*   [k |-> "val", t |-> name]    an instance of a scalar class (None is   *)
(*                                the instance of NoneType); a str also    *)
(*                                carries its characters in field s        *)
(*   [k |-> "dict", d |-> f]      a dict; f maps its keys to objects       *)
(*   [k |-> "list", l |-> s]      a list; s is the sequence of its items   *)
(*   [k |-> "listof", e |-> n]    a ListOf instance wrapping iospec n      *)
(*   [k |-> "exc", t |-> name]    a raised exception                       *)
(* Dict keys are strings.  The integer index i that make_dict_from_listlike*)
(* uses as a key is written IdxKey(i), so that every key has one type.     *)
(***************************************************************************)
EXTENDS Integers, Sequences, FiniteSets, TLC

VARIABLES required, optional, unlimited, typecheck_functions,
          coercion_functions, pc, iovalue, outcome, threads, manager,
          heap

vars == <<required, optional, unlimited, typecheck_functions,
          coercion_functions, pc, iovalue, outcome, threads, manager,
          heap>>

\* ------------------------------------------------------------- objects

Type(name) == [k |-> "type", t |-> name]
Val(name) == [k |-> "val", t |-> name]
Str(chars) == [k |-> "val", t |-> "str", s |-> chars]
Dict(f) == [k |-> "dict", d |-> f]
List(s) == [k |-> "list", l |-> s]
Raise(name) == [k |-> "exc", t |-> name]

None == Val("NoneType")

AnyType == Type("AnyType")

ListOf(iospec_obj) == [k |-> "listof", e |-> iospec_obj]

NotProvided == Type("NotProvided")

NoDifference == Type("NoDifference")

EmptyMap == [key \in {} |-> None]

IsExc(obj) == obj.k = "exc"

\* The keys 0, 1, 2, ... of a dict made from a list.
IdxNames == <<"0", "1", "2", "3", "4", "5", "6", "7">>

IdxKey(i) == IdxNames[i + 1]

IdxKeys(n) == {IdxKey(i) : i \in 0 .. (n - 1)}

\* type(obj).__name__
TypeOf(obj) ==
    CASE obj.k = "val" -> obj.t
      [] obj.k = "dict" -> "dict"
      [] obj.k = "list" -> "list"
      [] obj.k = "listof" -> "ListOf"
      [] OTHER -> "type"

\* The classes (abstract base classes included) that class 'name' inherits
\* from, itself included.
Bases(name) ==
    CASE name = "bool" -> {"bool", "int", "object"}
      [] name = "str" -> {"str", "Sequence", "object"}
      [] name = "dict" -> {"dict", "Mapping", "object"}
      [] name = "list" -> {"list", "Sequence", "object"}
      [] OTHER -> {name, "object"}

\* isinstance(obj, classinfo), classinfo a set of class names.
IsInstance(obj, classinfo) == Bases(TypeOf(obj)) \cap classinfo # {}

is_container(obj, classinfo) ==
    IsInstance(obj, classinfo) /\ ~IsInstance(obj, {"str", "bytes"})

all_are_containers(objs, classinfo) ==
    \A i \in DOMAIN objs : is_container(objs[i], classinfo)

\* dict.get(key, default)
Get(dict, key, default) ==
    IF key \in DOMAIN dict.d THEN dict.d[key] ELSE default

\* len(obj): a TypeError for an object without __len__.
Len0(obj) ==
    CASE obj.k = "list" -> Len(obj.l)
      [] obj.k = "dict" -> Cardinality(DOMAIN obj.d)
      [] obj.k = "val" /\ obj.t = "str" -> Len(obj.s)
      [] OTHER -> -1

\* ListOf.make_dict
make_dict(listof, length) == Dict([key \in IdxKeys(length) |-> listof.e])

\* The position i of the key IdxKey(i).
IdxOf(key) == CHOOSE i \in 0 .. (Len(IdxNames) - 1) : IdxKey(i) = key

\* The items that iterating obj yields: the items of a list, the characters
\* of a str, the keys of a dict.  A dict yields its keys in its own order;
\* 'order' lists all keys in the order in which the dicts of a call hold them.
Items(obj, order) ==
    CASE obj.k = "list" -> obj.l
      [] obj.k = "dict" ->
            LET keys == SelectSeq(order, LAMBDA key : key \in DOMAIN obj.d)
            IN  [i \in 1 .. Len(keys) |-> Str(<<keys[i]>>)]
      [] OTHER -> [i \in 1 .. Len(obj.s) |-> Str(<<obj.s[i]>>)]

\* make_dict_from_listlike(listlike_obj, target_length); a target_length of
\* -1 stands for the default None.  len() of an object without a length is a
\* TypeError.
make_dict_from_listlike(listlike_obj, target_length, order) ==
    IF listlike_obj.k = "listof"
    THEN (IF target_length < 0 THEN Raise("TypeError")
          ELSE make_dict(listlike_obj, target_length))
    ELSE IF Len0(listlike_obj) < 0 THEN Raise("TypeError")
    ELSE LET items == Items(listlike_obj, order)
         IN  Dict([key \in IdxKeys(Len(items)) |-> items[IdxOf(key) + 1]])

\* The order argument where only lists are iterated.
NoOrder == <<>>

\* [result_dict[i] for i in sorted(result_dict.keys())], the keys being the
\* indices 0 .. n-1.
ListFromDict(result_dict) ==
    List([i \in 1 .. Cardinality(DOMAIN result_dict.d) |->
             result_dict.d[IdxKey(i - 1)]])

\* ------------------------------------------------------------- combine

RECURSIVE combine_iospecs(_, _)

\* A merge that copies the optional dict and updates it with the required
\* one, so that a key of both sides keeps the required node alone.
combine_iospecs_dict_update(iospec_a, iospec_b) ==
    Dict([ikey \in (DOMAIN iospec_a.d) \cup (DOMAIN iospec_b.d) |->
             IF ikey \in DOMAIN iospec_a.d THEN iospec_a.d[ikey]
             ELSE iospec_b.d[ikey]])

combine_iospecs_dict(iospec_a, iospec_b) ==
    Dict([ikey \in (DOMAIN iospec_a.d) \cup (DOMAIN iospec_b.d) |->
             combine_iospecs(Get(iospec_a, ikey, NotProvided),
                             Get(iospec_b, ikey, NotProvided))])

combine_iospecs_list(iospec_list_a, iospec_list_b) ==
    ListFromDict(combine_iospecs_dict(
        make_dict_from_listlike(iospec_list_a, -1, NoOrder),
        make_dict_from_listlike(iospec_list_b, -1, NoOrder)))

\* A combination in which the optional side overrides the required one.
combine_iospecs_optional_wins(iospec_a, iospec_b) ==
    IF all_are_containers(<<iospec_a, iospec_b>>, {"dict"})
    THEN combine_iospecs_dict(iospec_a, iospec_b)
    ELSE IF all_are_containers(<<iospec_a, iospec_b>>, {"Sequence"})
    THEN combine_iospecs_list(iospec_a, iospec_b)
    ELSE IF iospec_b = NotProvided
    THEN (IF iospec_a = NotProvided THEN AnyType ELSE iospec_a)
    ELSE iospec_b

combine_iospecs(iospec_a, iospec_b) ==
    IF all_are_containers(<<iospec_a, iospec_b>>, {"dict"})
    THEN combine_iospecs_dict(iospec_a, iospec_b)
    ELSE IF all_are_containers(<<iospec_a, iospec_b>>, {"Sequence"})
    THEN combine_iospecs_list(iospec_a, iospec_b)
    ELSE IF iospec_a = NotProvided
    THEN (IF iospec_b = NotProvided THEN AnyType ELSE iospec_b)
    ELSE iospec_a

\* ---------------------------------------------------------- difference

\* UnknownContainer(ioval): '{...}' for a dict, '[...]' for a list.
UnknownContainer(ioval) ==
    [k |-> "unknown", representation |-> TypeOf(ioval)]

RECURSIVE difference_ioval(_, _, _)

difference_dict(dict_a, dict_b, abbreviate) ==
    LET item_result ==
            [ikey \in DOMAIN dict_a.d |->
                difference_ioval(dict_a.d[ikey],
                                 Get(dict_b, ikey, NotProvided), abbreviate)]
        keys == {ikey \in DOMAIN dict_a.d : item_result[ikey] # NoDifference}
        failed == {ikey \in keys : IsExc(item_result[ikey])}
    IN  IF failed # {} THEN Raise("TypeError")
        ELSE IF keys # {} THEN Dict([ikey \in keys |-> item_result[ikey]])
        ELSE NoDifference

\* The first of list_a, list_b that has a length gives the target length.
difference_list(list_a, list_b, abbreviate) ==
    LET target_length ==
            IF Len0(list_a) >= 0 THEN Len0(list_a) ELSE Len0(list_b)
    IN  IF target_length < 0 THEN Raise("TypeError")
        ELSE difference_dict(make_dict_from_listlike(list_a, target_length, NoOrder),
                             make_dict_from_listlike(list_b, target_length, NoOrder),
                             abbreviate)

\* A difference that also reports an item that is there but is not a
\* container of the same shape.
difference_ioval_unequal(item_a, item_b, abbreviate) ==
    IF all_are_containers(<<item_a, item_b>>, {"Mapping"})
    THEN difference_dict(item_a, item_b, abbreviate)
    ELSE IF all_are_containers(<<item_a, item_b>>, {"Sequence", "ListOf"})
    THEN difference_list(item_a, item_b, abbreviate)
    ELSE IF item_b = NotProvided \/ is_container(item_a, {"Sequence", "Mapping"})
    THEN (IF abbreviate /\ is_container(item_a, {"Sequence", "Mapping"})
          THEN UnknownContainer(item_a)
          ELSE item_a)
    ELSE NoDifference

difference_ioval(item_a, item_b, abbreviate) ==
    IF all_are_containers(<<item_a, item_b>>, {"Mapping"})
    THEN difference_dict(item_a, item_b, abbreviate)
    ELSE IF all_are_containers(<<item_a, item_b>>, {"Sequence", "ListOf"})
    THEN difference_list(item_a, item_b, abbreviate)
    ELSE IF item_b = NotProvided
    THEN (IF abbreviate /\ is_container(item_a, {"Sequence", "Mapping"})
          THEN UnknownContainer(item_a)
          ELSE item_a)
    ELSE NoDifference

\* 'ikey in obj': membership in a dict's keys; a class object is not iterable.
In(ikey, obj) == obj.k = "dict" /\ ikey \in DOMAIN obj.d

\* A filter without the early return for an empty unknown result: it reads
\* the items of whatever it is given.
filter_unlimited_no_early_return(unknown, combined_iospec) ==
    IF unknown.k # "dict" THEN Raise("AttributeError")
    ELSE LET iospec_dict ==
                 IF is_container(combined_iospec, {"Sequence", "ListOf"})
                 THEN make_dict_from_listlike(combined_iospec, Len0(unknown),
                                              NoOrder)
                 ELSE combined_iospec
             keys == {ikey \in DOMAIN unknown.d : In(ikey, iospec_dict)}
         IN  IF iospec_dict.k # "dict" THEN Raise("TypeError")
             ELSE IF keys = {} THEN NoDifference
             ELSE Dict([ikey \in keys |-> unknown.d[ikey]])

filter_unlimited(unknown, combined_iospec) ==
    IF unknown = NoDifference THEN NoDifference
    ELSE LET iospec_dict ==
                 IF is_container(combined_iospec, {"Sequence", "ListOf"})
                 THEN make_dict_from_listlike(combined_iospec, Len0(unknown),
                                              NoOrder)
                 ELSE combined_iospec
             keys == {ikey \in DOMAIN unknown.d : In(ikey, iospec_dict)}
         IN  IF iospec_dict.k # "dict" THEN Raise("TypeError")
             ELSE IF keys = {} THEN NoDifference
             ELSE Dict([ikey \in keys |-> unknown.d[ikey]])

\* ------------------------------------------------------- confirm type

\* WrongTypePair(type_obj, arg_value).pair
WrongTypePair(type_obj, arg_value) ==
    [k |-> "pair", expected |-> type_obj, got |-> Type(TypeOf(arg_value))]

\* raise WrongTypeError(type_obj, arg_value)
WrongTypeError(type_obj, arg_value) ==
    [k |-> "exc", t |-> "WrongTypeError",
     failure_result |-> WrongTypePair(type_obj, arg_value)]

\* raise WrongTypeDictError(failure_dict)
WrongTypeDictError(failure_dict) ==
    [k |-> "exc", t |-> "WrongTypeDictError", failure_result |-> failure_dict]

\* 'except WrongTypeError' catches the class and its subclass.
IsWrongTypeError(res) ==
    IsExc(res) /\ res.t \in {"WrongTypeError", "WrongTypeDictError"}

\* self.typecheck_functions[expected_type]: the registered function, or
\* NotProvided when the lookup ends in KeyError or AttributeError.
typecheck_function(self, expected_type) ==
    IF self.typecheck_functions.k = "dict"
       /\ expected_type.t \in DOMAIN self.typecheck_functions.d
    THEN self.typecheck_functions.d[expected_type.t]
    ELSE NotProvided

\* What a call of a registered function does for a value: "return", or the
\* name of the exception it raises.
Signal(function, ioval) == function.sig[TypeOf(ioval)]

RECURSIVE confirm_type_ioval(_, _, _, _)

confirm_type_dict(self, iovals_dict, iospec_dict, nonetype_ok) ==
    IF ~IsInstance(iovals_dict, {"Mapping"})
    THEN WrongTypeError(Type("dict"), iovals_dict)
    ELSE LET keys == {key \in DOMAIN iovals_dict.d : In(key, iospec_dict)}
             res == [key \in keys |->
                        confirm_type_ioval(self, iovals_dict.d[key],
                                           iospec_dict.d[key], nonetype_ok)]
             wrong_types == {key \in keys : IsWrongTypeError(res[key])}
             other == {key \in keys :
                          IsExc(res[key]) /\ ~IsWrongTypeError(res[key])}
         IN  IF other # {} THEN res[CHOOSE key \in other : TRUE]
             ELSE IF wrong_types # {}
             THEN WrongTypeDictError(
                      Dict([key \in wrong_types |-> res[key].failure_result]))
             ELSE None

\* A confirmation of list items that allows None values for ListOf too.
confirm_type_list_none_ok(self, iovals_list, iospec_obj) ==
    IF ~is_container(iovals_list, {"Sequence"})
    THEN WrongTypeError(iospec_obj, iovals_list)
    ELSE confirm_type_dict(
             self,
             make_dict_from_listlike(iovals_list, -1, NoOrder),
             make_dict_from_listlike(iospec_obj, Len0(iovals_list), NoOrder),
             TRUE)

confirm_type_list(self, iovals_list, iospec_obj) ==
    IF ~is_container(iovals_list, {"Sequence"})
    THEN WrongTypeError(iospec_obj, iovals_list)
    ELSE confirm_type_dict(
             self,
             make_dict_from_listlike(iovals_list, -1, NoOrder),
             make_dict_from_listlike(iospec_obj, Len0(iovals_list), NoOrder),
             iospec_obj.k # "listof")

\* A general case that compares the class of the value with the expected
\* type, and so rejects the instances of its subclasses.
confirm_type_general_exact(ioval, expected_type, nonetype_ok) ==
    IF ioval = None /\ ~nonetype_ok
    THEN WrongTypeError(expected_type, ioval)
    ELSE IF \/ TypeOf(ioval) = expected_type.t
            \/ expected_type = AnyType
            \/ (ioval = None /\ nonetype_ok)
    THEN None
    ELSE WrongTypeError(expected_type, ioval)

\* A general case without the test for AnyType.
confirm_type_general_no_anytype(ioval, expected_type, nonetype_ok) ==
    IF ioval = None /\ ~nonetype_ok
    THEN WrongTypeError(expected_type, ioval)
    ELSE IF \/ IsInstance(ioval, {expected_type.t})
            \/ (ioval = None /\ nonetype_ok)
    THEN None
    ELSE WrongTypeError(expected_type, ioval)

\* The part of confirm_type_ioval after the custom type-checking function.
confirm_type_general(ioval, expected_type, nonetype_ok) ==
    IF ioval = None /\ ~nonetype_ok
    THEN WrongTypeError(expected_type, ioval)
    ELSE IF \/ IsInstance(ioval, {expected_type.t})
            \/ expected_type = AnyType
            \/ (ioval = None /\ nonetype_ok)
    THEN None
    ELSE WrongTypeError(expected_type, ioval)

\* A confirmation that takes the normal return of a type-check function for
\* a success.
confirm_type_ioval_return_passes(self, ioval, expected, nonetype_ok) ==
    LET expected_type == IF expected = NotProvided THEN AnyType ELSE expected
        function == typecheck_function(self, expected_type)
    IN  IF is_container(expected_type, {"Mapping"})
        THEN confirm_type_dict(self, ioval, expected_type, TRUE)
        ELSE IF is_container(expected_type, {"Sequence", "ListOf"})
        THEN confirm_type_list(self, ioval, expected_type)
        ELSE IF function = NotProvided
        THEN confirm_type_general(ioval, expected_type, nonetype_ok)
        ELSE IF Signal(function, ioval) \in {"TypeCheckSuccessError", "return"}
        THEN None
        ELSE IF Signal(function, ioval) = "TypeCheckFailureError"
        THEN WrongTypeError(expected_type, ioval)
        ELSE Raise(Signal(function, ioval))

\* A confirmation that takes every exception of a type-check function other
\* than TypeCheckSuccessError for a failure of the check.
confirm_type_ioval_absorbs(self, ioval, expected, nonetype_ok) ==
    LET expected_type == IF expected = NotProvided THEN AnyType ELSE expected
        function == typecheck_function(self, expected_type)
    IN  IF is_container(expected_type, {"Mapping"})
        THEN confirm_type_dict(self, ioval, expected_type, TRUE)
        ELSE IF is_container(expected_type, {"Sequence", "ListOf"})
        THEN confirm_type_list(self, ioval, expected_type)
        ELSE IF function = NotProvided \/ Signal(function, ioval) = "return"
        THEN confirm_type_general(ioval, expected_type, nonetype_ok)
        ELSE IF Signal(function, ioval) = "TypeCheckSuccessError"
        THEN None
        ELSE WrongTypeError(expected_type, ioval)

confirm_type_ioval(self, ioval, expected, nonetype_ok) ==
    LET expected_type == IF expected = NotProvided THEN AnyType ELSE expected
        function == typecheck_function(self, expected_type)
    IN  IF is_container(expected_type, {"Mapping"})
        THEN confirm_type_dict(self, ioval, expected_type, TRUE)
        ELSE IF is_container(expected_type, {"Sequence", "ListOf"})
        THEN confirm_type_list(self, ioval, expected_type)
        ELSE IF function = NotProvided \/ Signal(function, ioval) = "return"
        THEN confirm_type_general(ioval, expected_type, nonetype_ok)
        ELSE IF Signal(function, ioval) = "TypeCheckSuccessError"
        THEN None
        ELSE IF Signal(function, ioval) = "TypeCheckFailureError"
        THEN WrongTypeError(expected_type, ioval)
        ELSE Raise(Signal(function, ioval))

\* ------------------------------------------------------ missing output

\* TypeNameRepresentation(type_obj): reads type_obj.__name__, which a class
\* and a ListOf instance have and a list has not.
TypeNameRepresentation(type_obj) ==
    IF type_obj.k \in {"type", "listof"}
    THEN [k |-> "typename", of |-> type_obj]
    ELSE IF type_obj = None THEN [k |-> "typename", of |-> Type("None")]
    ELSE Raise("AttributeError")

RECURSIVE make_missing_output(_)

make_missing_output_dict(iospec) ==
    LET out == [ikey \in DOMAIN iospec.d |->
                   make_missing_output(iospec.d[ikey])]
    IN  IF \E ikey \in DOMAIN iospec.d : IsExc(out[ikey])
        THEN Raise("AttributeError")
        ELSE Dict(out)

make_missing_output(iospec) ==
    IF iospec = NoDifference THEN None
    ELSE IF is_container(iospec, {"Mapping"})
    THEN make_missing_output_dict(iospec)
    ELSE TypeNameRepresentation(iospec)

\* bool(obj)
Truthy(obj) ==
    CASE obj = None -> FALSE
      [] obj.k = "dict" -> DOMAIN obj.d # {}
      [] obj.k = "list" -> Len(obj.l) > 0
      [] OTHER -> TRUE

\* -------------------------------------------------------------- verify

\* The three channels of a verify call: the missing diff, the unknown diff
\* (after the unlimited filter) and the wrong-type result.
NoChannels ==
    [missing |-> NoDifference, unknown |-> NoDifference, wrong_types |-> None]

\* The result of a call that returns normally; ch holds the channels that a
\* verify call has computed.
Returned(op, value, ch) ==
    [op |-> op, raised |-> "none", value |-> value, message |-> <<>>,
     channels |-> ch]

\* The result of a call that ends with an exception; message holds the
\* lines of the error message.
Raised(op, name, message, ch) ==
    [op |-> op, raised |-> name, value |-> None, message |-> message,
     channels |-> ch]

\* A line of the error message: a text followed by str() of an output.
Line(caption, output) == [caption |-> caption, output |-> output]

\* The lines that '\n'.join makes of error_msg and the captioned parts:
\* the error_msg alone, then the parts.
error_msg_lines(self, parts) == <<Line(self.error_msg, Str(<<>>))>> \o parts

\* The mutation of err_msg_parts that filters no part out.
err_msg_parts_unfiltered(missing_output, unknown, wrong_types) ==
    <<Line("Missing: ", missing_output), Line("Not allowed: ", unknown),
      Line("Wrong type: ", wrong_types)>>

\* The captioned parts of the error message, in the order of the code.
err_msg_parts(missing_output, unknown, wrong_types) ==
    LET parts == <<[caption |-> "Missing: ", output |-> missing_output],
                   [caption |-> "Not allowed: ", output |-> unknown],
                   [caption |-> "Wrong type: ", output |-> wrong_types]>>
    IN  SelectSeq(parts, LAMBDA part : Truthy(part.output)
                                       /\ part.output # NoDifference)

\* Locals of a verify that confirms no types when unlimited is set.
verify_locals_unlimited_unchecked(self, ioval) ==
    LET combined_iospec == combine_iospecs(self.required, self.optional)
        unknown == difference_ioval(ioval, combined_iospec, TRUE)
        confirmed == IF self.unlimited THEN None
                     ELSE confirm_type_ioval(self, ioval, combined_iospec,
                                             TRUE)
    IN  [missing |-> difference_ioval(self.required, ioval, FALSE),
         unknown |-> IF self.unlimited
                     THEN filter_unlimited(unknown, combined_iospec)
                     ELSE unknown,
         confirmed |-> confirmed,
         wrong_types |-> IF IsWrongTypeError(confirmed)
                         THEN confirmed.failure_result
                         ELSE None]

\* The locals of verify before it decides; confirmed is what
\* confirm_type_ioval ended with.
verify_locals(self, ioval) ==
    LET combined_iospec == combine_iospecs(self.required, self.optional)
        unknown == difference_ioval(ioval, combined_iospec, TRUE)
        confirmed == confirm_type_ioval(self, ioval, combined_iospec, TRUE)
    IN  [missing |-> difference_ioval(self.required, ioval, FALSE),
         unknown |-> IF self.unlimited
                     THEN filter_unlimited(unknown, combined_iospec)
                     ELSE unknown,
         confirmed |-> confirmed,
         wrong_types |-> IF IsWrongTypeError(confirmed)
                         THEN confirmed.failure_result
                         ELSE None]

\* The end of verify, from its locals: an exception other than
\* WrongTypeError passes through; the call returns when the three channels
\* are empty and raises VerificationFailureError otherwise.
verify_outcome(self, loc) ==
    LET missing_output == make_missing_output(loc.missing)
        ch == [missing |-> loc.missing, unknown |-> loc.unknown,
               wrong_types |-> loc.wrong_types]
    IN  IF IsExc(loc.missing)
        THEN Raised("verify", loc.missing.t, <<>>, NoChannels)
        ELSE IF IsExc(loc.unknown)
        THEN Raised("verify", loc.unknown.t, <<>>, NoChannels)
        ELSE IF IsExc(loc.confirmed) /\ ~IsWrongTypeError(loc.confirmed)
        THEN Raised("verify", loc.confirmed.t, <<>>, NoChannels)
        ELSE IF /\ loc.missing = NoDifference
                /\ loc.unknown = NoDifference
                /\ loc.wrong_types = None
        THEN Returned("verify", None, ch)
        ELSE IF IsExc(missing_output)
        THEN Raised("verify", missing_output.t, <<>>, ch)
        ELSE Raised("verify", "VerificationFailureError",
                    error_msg_lines(self,
                                    err_msg_parts(missing_output, loc.unknown,
                                                  loc.wrong_types)),
                    ch)

verify(self, ioval) == verify_outcome(self, verify_locals(self, ioval))

\* -------------------------------------------------------------- coerce

\* self.coercion_functions[expected_type]: the registered function, or
\* NotProvided when the lookup ends in KeyError or AttributeError.
coercion_function(self, expected_type) ==
    IF self.coercion_functions.k = "dict"
       /\ expected_type.k = "type"
       /\ expected_type.t \in DOMAIN self.coercion_functions.d
    THEN self.coercion_functions.d[expected_type.t]
    ELSE NotProvided

\* A coercion function converts the values of one class: it returns
\* function.to, or raises function.how (CoercionSuccessError carries
\* function.to as args[0]); any other value it returns unchanged.
\* A call in which the value carried by CoercionSuccessError is lost and the
\* input is kept.
CallCoercion_signal_dropped(function, ioval) ==
    IF TypeOf(ioval) # function.from THEN ioval
    ELSE IF function.how = "return" THEN function.to
    ELSE IF function.how = "CoercionSuccessError" THEN ioval
    ELSE Raise(function.how)

CallCoercion(function, ioval) ==
    IF TypeOf(ioval) # function.from THEN ioval
    ELSE IF function.how \in {"return", "CoercionSuccessError"}
    THEN function.to
    ELSE Raise(function.how)

RECURSIVE coerce_ioval(_, _, _, _)

\* iovals_dict.items() is an AttributeError unless iovals_dict is a dict.  An
\* exception raised for an item ends the loop: the first in iteration order.
coerce_dict(self, iovals_dict, iospec, order) ==
    IF iovals_dict.k # "dict" THEN Raise("AttributeError")
    ELSE LET res == [key \in DOMAIN iovals_dict.d |->
                        IF In(key, iospec)
                        THEN coerce_ioval(self, iovals_dict.d[key],
                                          iospec.d[key], order)
                        ELSE iovals_dict.d[key]]
             failed == SelectSeq(order \o IdxNames,
                                 LAMBDA key : /\ key \in DOMAIN iovals_dict.d
                                              /\ IsExc(res[key]))
         IN  IF failed # <<>> THEN res[failed[1]]
             ELSE Dict(res)

coerce_list(self, iovals_list, iospec_obj, order) ==
    LET iovals_dict == make_dict_from_listlike(iovals_list, -1, order)
        iospec == make_dict_from_listlike(iospec_obj, Len0(iovals_list),
                                          NoOrder)
        result_dict == coerce_dict(self, iovals_dict, iospec, order)
    IN  IF IsExc(iovals_dict) THEN iovals_dict
        ELSE IF IsExc(result_dict) THEN result_dict
        ELSE ListFromDict(result_dict)

coerce_ioval(self, ioval, expected_type, order) ==
    IF is_container(expected_type, {"Mapping"})
    THEN coerce_dict(self, ioval, expected_type, order)
    ELSE IF is_container(expected_type, {"Sequence", "ListOf"})
    THEN coerce_list(self, ioval, expected_type, order)
    ELSE LET function == coercion_function(self, expected_type)
         IN  IF function = NotProvided THEN ioval
             ELSE CallCoercion(function, ioval)

coerce(self, ioval, order) ==
    LET combined_iospec == combine_iospecs(self.required, self.optional)
        result == coerce_ioval(self, ioval, combined_iospec, order)
    IN  IF IsExc(result) THEN Raised("coerce", result.t, <<>>, NoChannels)
        ELSE Returned("coerce", result, NoChannels)

\* ---------------------------------------------------------- IOManager

\* One call that a manager method makes on a processor: the method, its
\* argument and how it ended.
Call(result, arg) ==
    [op |-> result.op, arg |-> arg, raised |-> result.raised,
     value |-> result.value]

\* The result of a manager method: the result of the call that decided it,
\* under the name of the method, with the calls made on the processors.
Ended(op, result, value, calls) ==
    [op |-> op, raised |-> result.raised, value |-> value,
     message |-> result.message, channels |-> result.channels,
     calls |-> calls]

\* IOManager.coerce_input and IOManager.coerce_output.
coerce_input(self, ioval, order) == coerce(self.input_processor, ioval, order)

coerce_output(self, ioval, order) ==
    coerce(self.output_processor, ioval, order)

\* The except clause of verify_input and verify_output: a
\* VerificationFailureError of the processor is raised again as the error
\* of the direction with the same arguments; any other result passes.
RaisedAs(name, result) ==
    IF result.raised = "VerificationFailureError"
    THEN Raised("verify", name, result.message, result.channels)
    ELSE result

\* IOManager.verify_input.
verify_input(self, ioval) ==
    RaisedAs("InputVerificationFailureError",
             verify(self.input_processor, ioval))

\* IOManager.verify_output.
verify_output(self, ioval) ==
    RaisedAs("OutputVerificationFailureError",
             verify(self.output_processor, ioval))

\* The element of a set of one element; it names the result of a call
\* that the lines below it read more than once.
The(S) == CHOOSE x \in S : TRUE

\* IOManager.process_input: coerce(), then verify() of the coerced value,
\* which is reached when coerce returned.
process_input(self, ioval, order) ==
    The({The({IF coerced.raised # "none"
              THEN Ended("process_input", coerced, None,
                         <<Call(coerced, ioval)>>)
              ELSE IF verified.raised # "none"
              THEN Ended("process_input", verified, None,
                         <<Call(coerced, ioval),
                           Call(verified, coerced.value)>>)
              ELSE Ended("process_input", verified, coerced.value,
                         <<Call(coerced, ioval),
                           Call(verified, coerced.value)>>) :
              verified \in {verify_input(self, coerced.value)}}) :
         coerced \in {coerce_input(self, ioval, order)}})

\* IOManager.process_output: verify(), then coerce() of the same value,
\* which is reached when verify returned.
process_output(self, ioval, order) ==
    The({IF verified.raised # "none"
         THEN Ended("process_output", verified, None,
                    <<Call(verified, ioval)>>)
         ELSE Ended("process_output", coerced, coerced.value,
                    <<Call(verified, ioval), Call(coerced, ioval)>>) :
         verified \in {verify_output(self, ioval)},
         coerced \in {coerce_output(self, ioval, order)}})

\* dict.update on keyword arguments: a dict from option names to values.
update(kwargs, other) ==
    [ikey \in DOMAIN kwargs \cup DOMAIN other |->
        IF ikey \in DOMAIN other THEN other[ikey] ELSE kwargs[ikey]]

\* What IOProcessor.__init__ takes beside error_msg, with its defaults.
IOProcessorDefaults ==
    [required |-> NotProvided, optional |-> NotProvided,
     unlimited |-> FALSE, typecheck_functions |-> NotProvided,
     coercion_functions |-> NotProvided]

\* IOProcessor(error_msg=error_msg, **kwargs): the instance, or the TypeError
\* of a keyword that is given twice or that __init__ does not take.
IOProcessor(error_msg, kwargs) ==
    IF ~(DOMAIN kwargs \subseteq DOMAIN IOProcessorDefaults)
    THEN Raise("TypeError")
    ELSE update(update(IOProcessorDefaults, kwargs),
                [error_msg |-> error_msg])

GeneralOptions == {"typecheck_functions", "coercion_functions"}

\* The general kwargs of the constructor: the arguments that are given.
general_kwargs(args) ==
    [ikey \in {name \in GeneralOptions : args[name] # NotProvided} |->
        args[ikey]]

\* An IOManager.__init__ that lets the defaults of the class for a direction
\* override the general arguments of the constructor.
IOManager_init_defaults_last(cls, args) ==
    LET default_general_kwargs == [ikey \in GeneralOptions |-> cls[ikey]]
        total_input_kwargs ==
            update(update(update(default_general_kwargs,
                                 general_kwargs(args)),
                          cls.input_kwargs),
                   args.input_kwargs)
        total_output_kwargs ==
            update(update(update(default_general_kwargs,
                                 general_kwargs(args)),
                          cls.output_kwargs),
                   args.output_kwargs)
        input_processor == IOProcessor("Invalid input.", total_input_kwargs)
        output_processor == IOProcessor("Invalid output.", total_output_kwargs)
    IN  IF input_processor = Raise("TypeError") THEN input_processor
        ELSE IF output_processor = Raise("TypeError") THEN output_processor
        ELSE [input_processor |-> input_processor,
              output_processor |-> output_processor]

\* IOManager.__init__ of a (sub)class with the attributes cls, called with
\* the arguments args: the instance with its two processors, or the
\* exception that IOProcessor raised.  An attribute that the class does not
\* define reads as NotProvided (general) or as the empty dict (direction).
IOManager_init(cls, args) ==
    LET default_general_kwargs == [ikey \in GeneralOptions |-> cls[ikey]]
        total_input_kwargs ==
            update(update(update(default_general_kwargs,
                                 cls.input_kwargs),
                          general_kwargs(args)),
                   args.input_kwargs)
        total_output_kwargs ==
            update(update(update(default_general_kwargs,
                                 cls.output_kwargs),
                          general_kwargs(args)),
                   args.output_kwargs)
        input_processor == IOProcessor("Invalid input.", total_input_kwargs)
        output_processor == IOProcessor("Invalid output.", total_output_kwargs)
    IN  IF input_processor = Raise("TypeError") THEN input_processor
        ELSE IF output_processor = Raise("TypeError") THEN output_processor
        ELSE [input_processor |-> input_processor,
              output_processor |-> output_processor]

\* ------------------------------------- ioprocess: default coercion

\* A datetime.datetime value; tz is the utcoffset of its tzinfo in minutes,
\* for an aware value.
Datetime(year, month, day, hour, minute, second, microsecond, tz) ==
    [k |-> "val", t |-> "datetime", year |-> year, month |-> month,
     day |-> day, hour |-> hour, minute |-> minute, second |-> second,
     microsecond |-> microsecond, tz |-> tz]

Naive == [aware |-> FALSE, minutes |-> 0]

Aware(minutes) == [aware |-> TRUE, minutes |-> minutes]

\* A uuid.UUID value: the 32 hexadecimal digits of its 128 bits.
UUID(digits) == [k |-> "val", t |-> "UUID", digits |-> digits]

\* The characters of the decimal and hexadecimal digits.
DigitChars == <<"0", "1", "2", "3", "4", "5", "6", "7", "8", "9">>

HexChars == DigitChars \o <<"a", "b", "c", "d", "e", "f">>

UpperHexChars == DigitChars \o <<"A", "B", "C", "D", "E", "F">>

IsDigit(char) == \E i \in DOMAIN DigitChars : DigitChars[i] = char

IsHex(char) ==
    \E i \in DOMAIN HexChars : char \in {HexChars[i], UpperHexChars[i]}

DigitOf(char) == (CHOOSE i \in DOMAIN DigitChars : DigitChars[i] = char) - 1

HexOf(char) ==
    (CHOOSE i \in DOMAIN HexChars :
        char \in {HexChars[i], UpperHexChars[i]}) - 1

\* '%0<width>d' % n
Digits(n, width) ==
    [i \in 1 .. width |-> DigitChars[((n \div (10 ^ (width - i))) % 10) + 1]]

\* int(chars)
RECURSIVE Number(_)
Number(chars) ==
    IF chars = <<>> THEN 0
    ELSE Number(SubSeq(chars, 1, Len(chars) - 1)) * 10
         + DigitOf(chars[Len(chars)])

AllDigits(chars) == \A i \in DOMAIN chars : IsDigit(chars[i])

\* datetime.isoformat(): YYYY-MM-DDTHH:MM:SS, then .ffffff unless the
\* microsecond is 0, then +HH:MM or -HH:MM for an aware value.
isoformat(ioval) ==
    LET abs == IF ioval.tz.minutes < 0 THEN 0 - ioval.tz.minutes
               ELSE ioval.tz.minutes
    IN  Str(Digits(ioval.year, 4) \o <<"-">> \o Digits(ioval.month, 2)
            \o <<"-">> \o Digits(ioval.day, 2) \o <<"T">>
            \o Digits(ioval.hour, 2) \o <<":">> \o Digits(ioval.minute, 2)
            \o <<":">> \o Digits(ioval.second, 2)
            \o (IF ioval.microsecond = 0 THEN <<>>
                ELSE <<".">> \o Digits(ioval.microsecond, 6))
            \o (IF ~ioval.tz.aware THEN <<>>
                ELSE <<IF ioval.tz.minutes < 0 THEN "-" ELSE "+">>
                     \o Digits(abs \div 60, 2) \o <<":">>
                     \o Digits(abs % 60, 2)))

\* The digits that a text starts with.
RECURSIVE LeadingDigits(_)
LeadingDigits(chars) ==
    IF chars = <<>> \/ ~IsDigit(chars[1]) THEN <<>>
    ELSE <<chars[1]>> \o LeadingDigits(Tail(chars))

\* The first six digits of a fraction of a second, filled up with zeros.
Microseconds(fraction) ==
    Number(SubSeq(fraction \o <<"0", "0", "0", "0", "0", "0">>, 1, 6))

\* dateutil.parser.parse of a text in the format of isoformat(): the
\* fields, the fraction of the second and the offset are read back; any
\* other text is a ValueError.
dateutil_parser_parse(chars) ==
    LET rest == SubSeq(chars, 20, Len(chars))
        fraction == IF rest # <<>> /\ rest[1] = "."
                    THEN LeadingDigits(Tail(rest)) ELSE <<>>
        zone == IF rest # <<>> /\ rest[1] = "."
                THEN SubSeq(rest, Len(fraction) + 2, Len(rest)) ELSE rest
        field(from, to) == SubSeq(chars, from, to)
    IN  IF \/ Len(chars) < 19
           \/ <<chars[5], chars[8], chars[11], chars[14], chars[17]>>
                  # <<"-", "-", "T", ":", ":">>
           \/ ~AllDigits(field(1, 4) \o field(6, 7) \o field(9, 10)
                         \o field(12, 13) \o field(15, 16) \o field(18, 19))
           \/ (rest # <<>> /\ rest[1] = "." /\ fraction = <<>>)
           \/ (zone # <<>>
               /\ ~(/\ Len(zone) = 6
                    /\ zone[1] \in {"+", "-"}
                    /\ zone[4] = ":"
                    /\ AllDigits(SubSeq(zone, 2, 3) \o SubSeq(zone, 5, 6))))
        THEN Raise("ValueError")
        ELSE Datetime(Number(field(1, 4)), Number(field(6, 7)),
                      Number(field(9, 10)), Number(field(12, 13)),
                      Number(field(15, 16)), Number(field(18, 19)),
                      Microseconds(fraction),
                      IF zone = <<>> THEN Naive
                      ELSE LET minutes == Number(SubSeq(zone, 2, 3)) * 60
                                          + Number(SubSeq(zone, 5, 6))
                           IN  Aware(IF zone[1] = "-" THEN 0 - minutes
                                     ELSE minutes))

\* str(uuid): the digits in groups of 8, 4, 4, 4 and 12.
uuid_str(ioval) ==
    LET hex == [i \in 1 .. 32 |-> HexChars[ioval.digits[i] + 1]]
    IN  Str(SubSeq(hex, 1, 8) \o <<"-">> \o SubSeq(hex, 9, 12) \o <<"-">>
            \o SubSeq(hex, 13, 16) \o <<"-">> \o SubSeq(hex, 17, 20)
            \o <<"-">> \o SubSeq(hex, 21, 32))

\* uuid.UUID(text): the hyphens are dropped; 32 hexadecimal digits must
\* remain, or it is a ValueError.
uuid_UUID(chars) ==
    LET hex == SelectSeq(chars, LAMBDA char : char # "-")
    IN  IF Len(hex) # 32 \/ \E i \in DOMAIN hex : ~IsHex(hex[i])
        THEN Raise("ValueError")
        ELSE UUID([i \in 1 .. 32 |-> HexOf(hex[i])])

\* isinstance(ioval, basestring)
IsString(ioval) == ioval.k = "val" /\ ioval.t = "str"

\* The mutation of coerce_datetime_output that formats without the
\* fraction of the second.
coerce_datetime_output_seconds(ioval) ==
    IF ~(ioval.k = "val" /\ ioval.t = "datetime") THEN ioval
    ELSE isoformat([ioval EXCEPT !.microsecond = 0])

coerce_uuid_input(ioval) ==
    IF ~IsString(ioval) THEN ioval
    ELSE IF IsExc(uuid_UUID(ioval.s)) THEN ioval
    ELSE uuid_UUID(ioval.s)

coerce_datetime_input(ioval) ==
    IF ~IsString(ioval) THEN ioval
    ELSE IF IsExc(dateutil_parser_parse(ioval.s)) THEN ioval
    ELSE dateutil_parser_parse(ioval.s)

coerce_uuid_output(ioval) ==
    IF ~(ioval.k = "val" /\ ioval.t = "UUID") THEN ioval
    ELSE uuid_str(ioval)

coerce_datetime_output(ioval) ==
    IF ~(ioval.k = "val" /\ ioval.t = "datetime") THEN ioval
    ELSE isoformat(ioval)

\* The coercion functions by name.
NamedFunction(name) == [k |-> "func", name |-> name]

default_coercion_functions_input ==
    Dict("UUID" :> NamedFunction("coerce_uuid_input")
         @@ "datetime" :> NamedFunction("coerce_datetime_input"))

default_coercion_functions_output ==
    Dict("UUID" :> NamedFunction("coerce_uuid_output")
         @@ "datetime" :> NamedFunction("coerce_datetime_output"))

\* coercion_function(ioval)
CallNamed(function, ioval) ==
    CASE function.name = "coerce_uuid_input" -> coerce_uuid_input(ioval)
      [] function.name = "coerce_datetime_input" ->
            coerce_datetime_input(ioval)
      [] function.name = "coerce_uuid_output" -> coerce_uuid_output(ioval)
      [] function.name = "coerce_datetime_output" ->
            coerce_datetime_output(ioval)

\* combine_tspecs of ioprocess: the keys of both; two dicts under one key
\* are combined, of any other two the first stands.
RECURSIVE combine_tspecs(_, _)
combine_tspecs(tspec_a, tspec_b) ==
    Dict([key \in DOMAIN tspec_a.d \cup DOMAIN tspec_b.d |->
             IF key \notin DOMAIN tspec_a.d THEN tspec_b.d[key]
             ELSE IF key \notin DOMAIN tspec_b.d THEN tspec_a.d[key]
             ELSE IF tspec_a.d[key].k = "dict" /\ tspec_b.d[key].k = "dict"
             THEN combine_tspecs(tspec_a.d[key], tspec_b.d[key])
             ELSE tspec_a.d[key]])

\* IOProcessor.coerce_ioval, coerce_dict and coerce_list of ioprocess: a
\* dict tspec is coerced key by key, a key without a tspec is kept, a ListOf
\* item by item, a leaf is given to the function registered for its type.
\* An exception raised for an item ends the loop: the first in iteration
\* order.
RECURSIVE ioprocess_coerce_ioval(_, _, _, _)
ioprocess_coerce_dict(functions, iovals_dict, tspec, order) ==
    IF iovals_dict.k # "dict" THEN Raise("AttributeError")
    ELSE LET res == [key \in DOMAIN iovals_dict.d |->
                        IF key \in DOMAIN tspec.d
                        THEN ioprocess_coerce_ioval(functions,
                                                    iovals_dict.d[key],
                                                    tspec.d[key], order)
                        ELSE iovals_dict.d[key]]
             failed == SelectSeq(order \o IdxNames,
                                 LAMBDA key : /\ key \in DOMAIN iovals_dict.d
                                              /\ IsExc(res[key]))
         IN  IF failed # <<>> THEN res[failed[1]]
             ELSE Dict(res)

ioprocess_coerce_list(functions, iovals_list, listof, order) ==
    LET iovals_dict == make_dict_from_listlike(iovals_list, -1, order)
        result_dict == ioprocess_coerce_dict(functions, iovals_dict,
                                             make_dict(listof,
                                                       Len0(iovals_list)),
                                             order)
    IN  IF IsExc(iovals_dict) THEN iovals_dict
        ELSE IF IsExc(result_dict) THEN result_dict
        ELSE ListFromDict(result_dict)

ioprocess_coerce_ioval(functions, ioval, expected_type, order) ==
    IF expected_type.k = "dict"
    THEN ioprocess_coerce_dict(functions, ioval, expected_type, order)
    ELSE IF expected_type.k = "listof"
    THEN ioprocess_coerce_list(functions, ioval, expected_type, order)
    ELSE IF expected_type.k = "type" /\ expected_type.t \in DOMAIN functions.d
    THEN CallNamed(functions.d[expected_type.t], ioval)
    ELSE ioval

\* IOProcessor.coerce of ioprocess, with the default optional={}.
ioprocess_coerce(functions, iovals, required_tspec, order) ==
    ioprocess_coerce_dict(functions, iovals,
                          combine_tspecs(required_tspec, Dict(EmptyMap)),
                          order)

\* ------------------------------------------------- the bounded universe

\* The longest list of the universe.
MaxLen == 2

\* The keys of the dicts of the universe.
Keys == {"a", "b"}

\* The orders in which a dict can hold the keys.
KeyOrders == {<<"a", "b">>, <<"b", "a">>}

\* Every dict over Keys whose item at key a is in A and at key b is in B.
DictsOver(A, B) ==
    {Dict(f) : f \in UNION {{g \in [K -> A \cup B] :
                                /\ ("a" \in K => g["a"] \in A)
                                /\ ("b" \in K => g["b"] \in B)} :
                            K \in SUBSET Keys}}

\* Every list of at most MaxLen items, the last in A and the others in B.
ListsOver(A, B) ==
    {List(s) : s \in UNION {{q \in [1 .. n -> A \cup B] :
                                \A i \in 1 .. n :
                                    q[i] \in (IF i = n THEN A ELSE B)} :
                            n \in 0 .. MaxLen}}

int == Type("int")

str == Type("str")

LeafSpecs == {int, str, AnyType}

LeafVals == {None, Val("int"), Val("bool"), Str(<<"x">>)}

\* The iospecs nested in a container of 'required'.
InnerSpecs == DictsOver({str}, {str}) \cup ListsOver({str}, {str})
              \cup {ListOf(str)}

\* The iospecs given as 'required'.
RequiredSpecs ==
    LET A == LeafSpecs \cup InnerSpecs
    IN  {NotProvided} \cup LeafSpecs \cup DictsOver(A, {str, List(<<str>>)})
        \cup ListsOver(A, {str}) \cup {ListOf(e) : e \in A}

\* The iospecs given as 'optional'.
OptionalSpecs ==
    LET A == {int, Dict("b" :> int)}
    IN  {NotProvided, int} \cup DictsOver(A, {}) \cup ListsOver(A, {int})
        \cup {ListOf(int)}

\* The values nested in a container value.
InnerVals ==
    LET A == {None, Val("int"), Str(<<"x">>)}
    IN  DictsOver(A, {Val("int")}) \cup ListsOver(A, {Val("int")})

\* The values given to verify and coerce.
Values ==
    LET A == LeafVals \cup InnerVals
    IN  LeafVals \cup DictsOver(A, {Val("int")})
        \cup ListsOver(A, {Val("int")})

\* A coercion function for the values of class 'from'.
Function(from, to, how) ==
    [k |-> "func", from |-> from, to |-> to, how |-> how]

\* The coercion functions of the processor: int parses a str and returns
\* the number, str formats an int and raises CoercionSuccessError with it.
CoercionFunctions ==
    Dict("int" :> Function("str", Val("int"), "return")
         @@ "str" :> Function("int", Str(<<"1">>), "CoercionSuccessError"))

\* The classes of the values of the universe.
ValueClasses == {"NoneType", "int", "bool", "str", "dict", "list"}

\* A type-check function that ends the same way for every value.
Always(signal) ==
    [k |-> "func", sig |-> [class \in ValueClasses |-> signal]]

\* The reject_subclasses example of TypeCheckFailureError, for int: a bool
\* fails, any other value is returned.
reject_subclasses ==
    [k |-> "func",
     sig |-> [class \in ValueClasses |->
                 IF class = "bool" THEN "TypeCheckFailureError"
                 ELSE "return"]]

\* The tables of type-check functions given to the processor.
TypecheckTables ==
    {Dict("int" :> function) :
        function \in {Always("TypeCheckSuccessError"),
                      Always("TypeCheckFailureError"),
                      Always("return"), reject_subclasses}}
    \cup {Dict("str" :> Always("TypeCheckSuccessError")
               @@ "AnyType" :> Always("TypeCheckFailureError"))}

\* ------------------------------------------------------ the processor

\* No calls are in progress side by side.
NoThreads == <<>>

\* No IOManager is being constructed.
NoManager == <<>>

\* No objects are held by reference.
NoHeap == <<>>

\* The IOProcessor instance, with the error_msg that __init__ defaults to.
Self ==
    [required |-> required, optional |-> optional, unlimited |-> unlimited,
     typecheck_functions |-> typecheck_functions,
     coercion_functions |-> coercion_functions,
     error_msg |-> "Invalid input/output."]

\* The outcome of a call together with the combined iospec that verify and
\* coerce compute first from the two iospecs of the instance.
WithCombined(result) ==
    [op |-> result.op, raised |-> result.raised, value |-> result.value,
     message |-> result.message, channels |-> result.channels,
     combined_iospec |-> combine_iospecs(required, optional)]

\* IOProcessor.__init__: the instance holds its arguments; a function table
\* that is not given is no attribute of the instance.
Init ==
    /\ required \in RequiredSpecs
    /\ optional \in OptionalSpecs
    /\ unlimited \in BOOLEAN
    /\ typecheck_functions = NotProvided
    /\ coercion_functions = CoercionFunctions
    /\ pc = "ready"
    /\ iovalue = None
    /\ outcome = WithCombined(Returned("__init__", None, NoChannels))
    /\ threads = NoThreads
    /\ manager = NoManager
    /\ heap = NoHeap

\* A call of combine_iospecs(required, optional), as verify and coerce make.
Combine ==
    /\ pc = "ready"
    /\ outcome' = WithCombined(Returned("combine",
                                       combine_iospecs(required, optional),
                                       NoChannels))
    /\ pc' = "done"
    /\ UNCHANGED <<required, optional, unlimited, typecheck_functions,
                   coercion_functions, iovalue,
                   threads, manager, heap>>

\* A call of IOProcessor.verify(iovalue).
Verify ==
    /\ pc = "ready"
    /\ \E ioval \in Values :
          /\ iovalue' = ioval
          /\ outcome' = WithCombined(verify(Self, ioval))
    /\ pc' = "done"
    /\ UNCHANGED <<required, optional, unlimited, typecheck_functions,
                   coercion_functions, threads,
                   manager, heap>>

\* A call of IOProcessor.coerce(iovalue).
Coerce ==
    /\ pc = "ready"
    /\ \E ioval \in Values, order \in KeyOrders :
          /\ iovalue' = ioval
          /\ outcome' = WithCombined(coerce(Self, ioval, order))
    /\ pc' = "done"
    /\ UNCHANGED <<required, optional, unlimited, typecheck_functions,
                   coercion_functions, threads,
                   manager, heap>>

Next == Combine \/ Verify

Spec == Init /\ [][Next]_vars

\* The processors that coerce is called on: the unlimited flag, which coerce
\* does not read, is left at its default.
InitCoerce == Init /\ unlimited = FALSE

NextCoerce == Combine \/ Verify \/ Coerce

SpecCoerce == InitCoerce /\ [][NextCoerce]_vars

\* The processors with unlimited set, on which verify is called.
InitUnlimited == Init /\ unlimited = TRUE

NextUnlimited == Verify

SpecUnlimited == InitUnlimited /\ [][NextUnlimited]_vars

\* The processors that hold type-check functions: verify is called on them
\* with a required iospec alone.
InitTypeCheck ==
    /\ required \in RequiredSpecs
    /\ optional = NotProvided
    /\ unlimited = FALSE
    /\ typecheck_functions \in TypecheckTables
    /\ coercion_functions = CoercionFunctions
    /\ pc = "ready"
    /\ iovalue = None
    /\ outcome = WithCombined(Returned("__init__", None, NoChannels))
    /\ threads = NoThreads
    /\ manager = NoManager
    /\ heap = NoHeap

NextTypeCheck == Verify

SpecTypeCheck == InitTypeCheck /\ [][NextTypeCheck]_vars

\* The tables of coercion functions given to the processor: the two
\* functions, an empty table, or none.
CoercionTables == {CoercionFunctions, Dict(EmptyMap), NotProvided}

\* The processors that coerce alone is called on, with a required iospec.
InitCoerceOnly ==
    /\ required \in RequiredSpecs
    /\ optional = NotProvided
    /\ unlimited = FALSE
    /\ typecheck_functions = NotProvided
    /\ coercion_functions \in CoercionTables
    /\ pc = "ready"
    /\ iovalue = None
    /\ outcome = WithCombined(Returned("__init__", None, NoChannels))
    /\ threads = NoThreads
    /\ manager = NoManager
    /\ heap = NoHeap

NextCoerceOnly == Coerce

SpecCoerceOnly == InitCoerceOnly /\ [][NextCoerceOnly]_vars

\* The IOProcessor that IOManager.__init__ makes for one direction: the
\* kwargs of the direction with the error_msg of the direction.
Processor(error_msg) == [Self EXCEPT !.error_msg = error_msg]

\* The IOManager instance; input_kwargs and output_kwargs are the same
\* iospecs, the function tables are the general kwargs.
Manager ==
    [input_processor |-> Processor("Invalid input."),
     output_processor |-> Processor("Invalid output.")]

\* The outcome of a manager method, with the combined iospec of the
\* processor and the calls the method made.
WithCalls(result) ==
    [op |-> result.op, raised |-> result.raised, value |-> result.value,
     message |-> result.message, channels |-> result.channels,
     combined_iospec |-> combine_iospecs(required, optional),
     calls |-> result.calls]

\* IOManager.__init__ with a required iospec for both directions and the
\* coercion functions, or none.
InitManager ==
    /\ required \in RequiredSpecs
    /\ optional = NotProvided
    /\ unlimited = FALSE
    /\ typecheck_functions = NotProvided
    /\ coercion_functions \in {CoercionFunctions, NotProvided}
    /\ pc = "ready"
    /\ iovalue = None
    /\ outcome = WithCombined(Returned("__init__", None, NoChannels))
    /\ threads = NoThreads
    /\ manager = NoManager
    /\ heap = NoHeap

\* A call of IOManager.process_input(iovalue).
ProcessInput ==
    /\ pc = "ready"
    /\ \E ioval \in Values, order \in KeyOrders :
          \E result \in {process_input(Manager, ioval, order)} :
              /\ iovalue' = ioval
              /\ outcome' = WithCalls(result)
    /\ pc' = "done"
    /\ UNCHANGED <<required, optional, unlimited, typecheck_functions,
                   coercion_functions, threads,
                   manager, heap>>

\* A call of IOManager.process_output(iovalue).
ProcessOutput ==
    /\ pc = "ready"
    /\ \E ioval \in Values, order \in KeyOrders :
          \E result \in {process_output(Manager, ioval, order)} :
              /\ iovalue' = ioval
              /\ outcome' = WithCalls(result)
    /\ pc' = "done"
    /\ UNCHANGED <<required, optional, unlimited, typecheck_functions,
                   coercion_functions, threads,
                   manager, heap>>

NextManager == ProcessInput \/ ProcessOutput

SpecManager == InitManager /\ [][NextManager]_vars

\* The timestamps of the universe: the first and a late year, the ends of
\* the ranges of the fields, with and without a fraction of the second,
\* naive and aware on both sides of UTC.
Timestamps ==
    {Datetime(year, month, day, hour, 4, 5, microsecond, tz) :
        year \in {1, 2013}, month \in {1, 12}, day \in {2, 31},
        hour \in {0, 23}, microsecond \in {0, 6, 999999},
        tz \in {Naive, Aware(0), Aware(330), Aware(0 - 60)}}

\* The unique identifiers of the universe.
Identifiers ==
    {UUID([i \in 1 .. 32 |-> 0]), UUID([i \in 1 .. 32 |-> 15]),
     UUID([i \in 1 .. 32 |-> (7 * i) % 16])}

\* The tspecs of the coercion cycle: {'value': type_obj}.
CycleSpecs == {Dict("value" :> type_obj) :
                  type_obj \in {Type("datetime"), Type("UUID")}}

\* The outcome of a coerce call of ioprocess on the way through the cycle;
\* output_result is what the output processor returned.
CycleOutcome(op, result, output_result) ==
    [op |-> op,
     raised |-> IF IsExc(result) THEN result.t ELSE "none",
     value |-> IF IsExc(result) THEN None ELSE result,
     message |-> <<>>, channels |-> NoChannels,
     combined_iospec |-> combine_tspecs(required, optional),
     output_result |-> output_result]

\* input_processor() and output_processor() of ioprocess, and the value
\* {'value': starting_value} of the coercion cycle.
InitCycle ==
    /\ required \in CycleSpecs
    /\ optional = Dict(EmptyMap)
    /\ unlimited = FALSE
    /\ typecheck_functions = NotProvided
    /\ coercion_functions =
           [input_processor |-> default_coercion_functions_input,
            output_processor |-> default_coercion_functions_output]
    /\ pc = "ready"
    /\ iovalue \in {Dict("value" :> starting_value) :
                       starting_value \in Timestamps \cup Identifiers}
    /\ outcome = CycleOutcome("__init__", None, None)
    /\ threads = NoThreads
    /\ manager = NoManager
    /\ heap = NoHeap

\* output_processor.coerce({'value': starting_value}, required=iospec)
CoerceOutput ==
    /\ pc = "ready"
    /\ \E result \in {ioprocess_coerce(coercion_functions.output_processor,
                                       iovalue, required, <<"value">>)} :
          outcome' = CycleOutcome("coerce_output", result, result)
    /\ pc' = "output"
    /\ UNCHANGED <<required, optional, unlimited, typecheck_functions,
                   coercion_functions, iovalue,
                   threads, manager, heap>>

\* input_processor.coerce(output_result, required=iospec)
CoerceInput ==
    /\ pc = "output"
    /\ outcome.raised = "none"
    /\ \E result \in {ioprocess_coerce(coercion_functions.input_processor,
                                       outcome.value, required,
                                       <<"value">>)} :
          outcome' = CycleOutcome("coerce_input", result,
                                  outcome.output_result)
    /\ pc' = "done"
    /\ UNCHANGED <<required, optional, unlimited, typecheck_functions,
                   coercion_functions, iovalue,
                   threads, manager, heap>>

NextCycle == CoerceOutput \/ CoerceInput

SpecCycle == InitCycle /\ [][NextCycle]_vars

\* ----------------------------------------------- calls side by side

\* The threads that call the processor side by side.
Threads == {1, 2}

\* The mutation in which the locals of a call are kept on the instance, so
\* that all calls share them.
frame_of_instance(thread) == 1

\* The frame that holds the argument and the locals of the call of a
\* thread: its own.
frame_of(thread) == thread

\* The processors and the values of the calls side by side.
ThreadRequired == {int, Dict("a" :> int), ListOf(int)}

ThreadOptional == {NotProvided, Dict("b" :> int)}

ThreadValues ==
    {Val("int"), Str(<<"1">>), Dict("a" :> Str(<<"1">>)),
     Dict("a" :> Val("int") @@ "c" :> Val("int")), List(<<Val("int")>>)}

\* A frame before the call has stored anything in it.
EmptyFrame ==
    [iovalue |-> None, required |-> None, optional |-> None,
     unlimited |-> FALSE, combined_iospec |-> None, missing |-> None,
     unknown |-> None, confirmed |-> None]

\* A thread that has not called yet; arg is the value it calls with.
Idle == [op |-> "none", arg |-> None, at |-> "idle", result |-> None]

InitThreads ==
    /\ required \in ThreadRequired
    /\ optional \in ThreadOptional
    /\ unlimited \in BOOLEAN
    /\ typecheck_functions = NotProvided
    /\ coercion_functions = CoercionFunctions
    /\ pc = "ready"
    /\ iovalue = None
    /\ outcome = WithCombined(Returned("__init__", None, NoChannels))
    /\ threads = [call |-> [thread \in Threads |-> Idle],
                  frame |-> [thread \in Threads |-> EmptyFrame]]
    /\ manager = NoManager
    /\ heap = NoHeap

\* The frame of the call of a thread.
Frame(thread) == threads.frame[frame_of(thread)]

\* The step of a thread: what it stores in its frame, where it goes on and
\* what its call has ended with.
Step(thread, from, frame, to, result) ==
    /\ threads.call[thread].at = from
    /\ threads' = [call |-> [threads.call EXCEPT
                                ![thread].at = to,
                                ![thread].result = result],
                   frame |-> [threads.frame EXCEPT
                                 ![frame_of(thread)] = frame]]
    /\ UNCHANGED <<required, optional, unlimited, typecheck_functions,
                   coercion_functions, pc, iovalue, outcome, manager,
                   heap>>

\* A thread calls verify or coerce: the argument is bound in the frame.
Enter ==
    \E thread \in Threads, op \in {"verify", "coerce"},
       ioval \in ThreadValues :
        /\ threads.call[thread].at = "idle"
        /\ threads' =
               [call |-> [threads.call EXCEPT
                             ![thread] = [op |-> op, arg |-> ioval,
                                          at |-> op, result |-> None]],
                frame |-> [threads.frame EXCEPT
                              ![frame_of(thread)].iovalue = ioval]]
        /\ UNCHANGED <<required, optional, unlimited, typecheck_functions,
                       coercion_functions, pc, iovalue, outcome, manager,
                   heap>>

\* verify, lines 198-201: the three attributes of the instance are read.
VerifyGetattr ==
    \E thread \in Threads :
        Step(thread, "verify",
             [Frame(thread) EXCEPT !.required = required,
                                   !.optional = optional,
                                   !.unlimited = unlimited],
             "combined_iospec", None)

\* verify, line 203.
VerifyCombine ==
    \E thread \in Threads :
        Step(thread, "combined_iospec",
             [Frame(thread) EXCEPT
                 !.combined_iospec =
                     combine_iospecs(Frame(thread).required,
                                     Frame(thread).optional)],
             "missing", None)

\* verify, line 205.
VerifyMissing ==
    \E thread \in Threads :
        Step(thread, "missing",
             [Frame(thread) EXCEPT
                 !.missing = difference_ioval(Frame(thread).required,
                                              Frame(thread).iovalue,
                                              FALSE)],
             "unknown", None)

\* verify, lines 206-213.
VerifyUnknown ==
    \E thread \in Threads :
        \E unknown \in {difference_ioval(Frame(thread).iovalue,
                                         Frame(thread).combined_iospec,
                                         TRUE)} :
            Step(thread, "unknown",
                 [Frame(thread) EXCEPT
                     !.unknown =
                         IF Frame(thread).unlimited
                         THEN filter_unlimited(
                                  unknown, Frame(thread).combined_iospec)
                         ELSE unknown],
                 "confirm_type", None)

\* verify, lines 215-220; the type-check functions of the instance are read
\* here.
VerifyConfirmType ==
    \E thread \in Threads :
        Step(thread, "confirm_type",
             [Frame(thread) EXCEPT
                 !.confirmed =
                     confirm_type_ioval(Self, Frame(thread).iovalue,
                                        Frame(thread).combined_iospec,
                                        TRUE)],
             "decide", None)

\* verify, lines 222-244.
VerifyDecide ==
    \E thread \in Threads :
        Step(thread, "decide", Frame(thread), "done",
             verify_outcome(
                 Self,
                 [missing |-> Frame(thread).missing,
                  unknown |-> Frame(thread).unknown,
                  confirmed |-> Frame(thread).confirmed,
                  wrong_types |->
                      IF IsWrongTypeError(Frame(thread).confirmed)
                      THEN Frame(thread).confirmed.failure_result
                      ELSE None]))

\* coerce, lines 409-413: the iospecs of the instance are read and combined.
CoerceCombine ==
    \E thread \in Threads :
        Step(thread, "coerce",
             [Frame(thread) EXCEPT
                 !.combined_iospec = combine_iospecs(required, optional)],
             "coerce_ioval", None)

\* coerce, line 415; the coercion functions of the instance are read here.
CoerceIoval ==
    \E thread \in Threads, order \in KeyOrders :
        \E result \in {coerce_ioval(Self, Frame(thread).iovalue,
                                    Frame(thread).combined_iospec, order)} :
            Step(thread, "coerce_ioval", Frame(thread), "done",
                 IF IsExc(result)
                 THEN Raised("coerce", result.t, <<>>, NoChannels)
                 ELSE Returned("coerce", result, NoChannels))

NextThreads ==
    \/ Enter
    \/ VerifyGetattr
    \/ VerifyCombine
    \/ VerifyMissing
    \/ VerifyUnknown
    \/ VerifyConfirmType
    \/ VerifyDecide
    \/ CoerceCombine
    \/ CoerceIoval

SpecThreads == InitThreads /\ [][NextThreads]_vars

\* A setting can be given in six layers: as an attribute of the class
\* ("class", "class input", "class output") or as an argument of the
\* constructor ("args", "args input", "args output").  The table of
\* type-check functions that a layer gives, if it gives one: its function
\* for int raises an exception named after the layer, which tells the tables
\* of the layers apart.
TypecheckTableOf(layer) == Dict("int" :> Always(layer))

\* The table of coercion functions that a layer gives, if it gives one.
CoercionTableOf(layer) ==
    Dict("int" :> Function("str", Val("int"), layer))

\* The kwargs a layer for one direction can hold: a table of each kind or
\* none, and for the input direction a required iospec or none; the
\* constructor can also be given NotProvided as a table of type-check
\* functions.
DirectionKwargs(layer) ==
    LET typecheck ==
            {EmptyMap, [typecheck_functions |-> TypecheckTableOf(layer)]}
            \cup (IF layer \in {"args input", "args output"}
                  THEN {[typecheck_functions |-> NotProvided]} ELSE {})
        coercion ==
            {EmptyMap, [coercion_functions |-> CoercionTableOf(layer)]}
        iospec ==
            {EmptyMap}
            \cup (IF layer = "class input" THEN {[required |-> int]} ELSE {})
            \cup (IF layer = "args input" THEN {[required |-> str]} ELSE {})
    IN  {update(update(t, c), r) : t \in typecheck, c \in coercion,
                                   r \in iospec}

\* The attributes of the IOManager (sub)classes.
Classes ==
    [typecheck_functions : {NotProvided, TypecheckTableOf("class")},
     coercion_functions : {NotProvided, CoercionTableOf("class")},
     input_kwargs : DirectionKwargs("class input"),
     output_kwargs : DirectionKwargs("class output")]

\* The arguments of the constructor.
Arguments ==
    [typecheck_functions : {NotProvided, TypecheckTableOf("args")},
     coercion_functions : {NotProvided, CoercionTableOf("args")},
     input_kwargs : DirectionKwargs("args input"),
     output_kwargs : DirectionKwargs("args output")]

\* A class of managers and the arguments its constructor is about to be
\* called with.
InitPrecedence ==
    /\ required = NotProvided
    /\ optional = NotProvided
    /\ unlimited = FALSE
    /\ typecheck_functions = NotProvided
    /\ coercion_functions = NotProvided
    /\ pc = "ready"
    /\ iovalue = None
    /\ outcome = WithCombined(Returned("__init__", None, NoChannels))
    /\ threads = NoThreads
    /\ manager \in [cls : Classes, args : Arguments, self : {None}]
    /\ heap = NoHeap

\* The call of the constructor.
Construct ==
    /\ pc = "ready"
    /\ manager' = [manager EXCEPT
                      !.self = IOManager_init(manager.cls, manager.args)]
    /\ pc' = "done"
    /\ UNCHANGED <<required, optional, unlimited, typecheck_functions,
                   coercion_functions, iovalue, outcome, threads, heap>>

NextPrecedence == Construct

SpecPrecedence == InitPrecedence /\ [][NextPrecedence]_vars

\* The pairs of iospecs that combine_iospecs is called on: each side is any
\* iospec of the universe.
InitCombine ==
    /\ required \in RequiredSpecs \cup OptionalSpecs
    /\ optional \in RequiredSpecs \cup OptionalSpecs
    /\ unlimited = FALSE
    /\ typecheck_functions = NotProvided
    /\ coercion_functions = CoercionFunctions
    /\ pc = "ready"
    /\ iovalue = None
    /\ outcome = WithCombined(Returned("__init__", None, NoChannels))
    /\ threads = NoThreads
    /\ manager = NoManager
    /\ heap = NoHeap

NextCombine == Combine

SpecCombine == InitCombine /\ [][NextCombine]_vars

\* ----------------------------------------- functions that raise

\* A type-check function that raises ValueError for a str and returns for
\* any other value.
raises_for_str ==
    [k |-> "func",
     sig |-> [class \in ValueClasses |->
                 IF class = "str" THEN "ValueError" ELSE "return"]]

\* A coercion function that raises KeyError for an int.
raises_for_int == Function("int", None, "KeyError")

\* The processors and managers whose functions for int raise an exception
\* that is no signal.
InitRaising ==
    /\ required \in RequiredSpecs
    /\ optional = NotProvided
    /\ unlimited = FALSE
    /\ typecheck_functions \in {NotProvided, Dict("int" :> raises_for_str)}
    /\ coercion_functions \in {NotProvided, Dict("int" :> raises_for_int)}
    /\ pc = "ready"
    /\ iovalue = None
    /\ outcome = WithCombined(Returned("__init__", None, NoChannels))
    /\ threads = NoThreads
    /\ manager = NoManager
    /\ heap = NoHeap

NextRaising == Verify \/ Coerce \/ ProcessInput \/ ProcessOutput

SpecRaising == InitRaising /\ [][NextRaising]_vars

\* ------------------------------------------ objects held by reference

\* Python holds containers by reference.  Here the heap is the sequence of
\* the container objects that exist; the items of a container, the
\* attributes of the instance and the arguments of a call are either scalars
\* or references [k |-> "ref", to |-> n] to the n-th object of the heap.
Ref(n) == [k |-> "ref", to |-> n]

\* The object an item stands for.
Obj(h, item) == IF item.k = "ref" THEN h[item.to] ELSE item

\* A container display or comprehension: a new object.
New(h, obj) == [h |-> Append(h, obj), v |-> Ref(Len(h) + 1)]

\* container[key] = item
Store(h, ref, key, item) ==
    [h EXCEPT ![ref.to] =
        IF @.k = "dict" THEN Dict((key :> item) @@ @.d)
        ELSE List([@.l EXCEPT ![IdxOf(key) + 1] = item])]

\* The keys of a dict in the order in which it holds them.
KeySeq(keys, order) ==
    SelectSeq(order \o IdxNames, LAMBDA key : key \in keys)

\* The keys of a dict literal, one after the other.
RECURSIVE LiteralKeys(_)
LiteralKeys(keys) ==
    IF keys = {} THEN <<>>
    ELSE LET key == CHOOSE key \in keys : TRUE
         IN  <<key>> \o LiteralKeys(keys \ {key})

RECURSIVE Alloc(_, _)
RECURSIVE AllocAll(_, _, _, _)

\* The objects that the caller builds for a nested literal, innermost first.
AllocAll(h, children, keys, acc) ==
    IF keys = <<>> THEN [h |-> h, v |-> acc]
    ELSE LET r == Alloc(h, children[Head(keys)])
         IN  AllocAll(r.h, children, Tail(keys), (Head(keys) :> r.v) @@ acc)

Alloc(h, obj) ==
    CASE obj.k = "dict" ->
            LET r == AllocAll(h, obj.d, LiteralKeys(DOMAIN obj.d), EmptyMap)
            IN  New(r.h, Dict(r.v))
      [] obj.k = "list" ->
            LET r == AllocAll(h, obj.l, [i \in 1 .. Len(obj.l) |-> i], <<>>)
            IN  New(r.h, List(r.v))
      [] obj.k = "listof" ->
            LET r == Alloc(h, obj.e)
            IN  New(r.h, ListOf(r.v))
      [] OTHER -> [h |-> h, v |-> obj]

\* The nested object that an item stands for, references followed.
RECURSIVE Deref(_, _)
Deref(h, item) ==
    LET obj == Obj(h, item)
    IN  CASE obj.k = "dict" ->
                Dict([key \in DOMAIN obj.d |-> Deref(h, obj.d[key])])
          [] obj.k = "list" ->
                List([i \in 1 .. Len(obj.l) |-> Deref(h, obj.l[i])])
          [] obj.k = "listof" -> ListOf(Deref(h, obj.e))
          [] OTHER -> obj

RECURSIVE heap_combine_iospecs(_, _, _, _)
RECURSIVE heap_combine_items(_, _, _, _, _, _)

\* The dict comprehension of combine_iospecs_dict, key by key.
heap_combine_items(h, result, iospec_a, iospec_b, keys, order) ==
    IF keys = <<>> THEN [h |-> h, v |-> result]
    ELSE LET r == heap_combine_iospecs(
                      h, Get(iospec_a, Head(keys), NotProvided),
                      Get(iospec_b, Head(keys), NotProvided), order)
         IN  heap_combine_items(Store(r.h, result, Head(keys), r.v), result,
                                iospec_a, iospec_b, Tail(keys), order)

heap_combine_iospecs_dict(h, iospec_a, iospec_b, order) ==
    LET result == New(h, Dict(EmptyMap))
        a == Obj(h, iospec_a)
        b == Obj(h, iospec_b)
    IN  heap_combine_items(result.h, result.v, a, b,
                           KeySeq((DOMAIN a.d) \cup (DOMAIN b.d), order),
                           order)

\* [result_dict[i] for i in sorted(result_dict.keys())]
heap_list_from_dict(r) ==
    IF IsExc(r.v) THEN r ELSE New(r.h, ListFromDict(Obj(r.h, r.v)))

heap_combine_iospecs_list(h, iospec_list_a, iospec_list_b, order) ==
    LET iospec_a ==
            New(h, make_dict_from_listlike(Obj(h, iospec_list_a), -1,
                                           NoOrder))
        iospec_b ==
            New(iospec_a.h,
                make_dict_from_listlike(Obj(h, iospec_list_b), -1, NoOrder))
    IN  heap_list_from_dict(
            heap_combine_iospecs_dict(iospec_b.h, iospec_a.v, iospec_b.v,
                                      order))

heap_combine_iospecs(h, iospec_a, iospec_b, order) ==
    IF all_are_containers(<<Obj(h, iospec_a), Obj(h, iospec_b)>>, {"dict"})
    THEN heap_combine_iospecs_dict(h, iospec_a, iospec_b, order)
    ELSE IF all_are_containers(<<Obj(h, iospec_a), Obj(h, iospec_b)>>,
                               {"Sequence"})
    THEN heap_combine_iospecs_list(h, iospec_a, iospec_b, order)
    ELSE IF iospec_a = NotProvided
    THEN [h |-> h, v |-> IF iospec_b = NotProvided THEN AnyType ELSE iospec_b]
    ELSE [h |-> h, v |-> iospec_a]

RECURSIVE heap_coerce_ioval(_, _, _, _, _)
RECURSIVE heap_coerce_items(_, _, _, _, _, _, _)

\* The loop of coerce_dict over iovals_dict.items(): each item is stored in
\* result_iovals; an exception ends the loop.
heap_coerce_items(self, h, result_iovals, iovals_dict, iospec, keys, order) ==
    IF keys = <<>> THEN [h |-> h, v |-> result_iovals]
    ELSE LET key == Head(keys)
             r == IF In(key, iospec)
                  THEN heap_coerce_ioval(self, h, iovals_dict.d[key],
                                         iospec.d[key], order)
                  ELSE [h |-> h, v |-> iovals_dict.d[key]]
         IN  IF IsExc(r.v) THEN r
             ELSE heap_coerce_items(self,
                                    Store(r.h, result_iovals, key, r.v),
                                    result_iovals, iovals_dict, iospec,
                                    Tail(keys), order)

\* A coerce_dict that stores the coerced items in iovals_dict itself.
heap_coerce_dict_in_place(self, h, iovals_dict, iospec, order) ==
    IF Obj(h, iovals_dict).k # "dict"
    THEN [h |-> h, v |-> Raise("AttributeError")]
    ELSE heap_coerce_items(self, h, iovals_dict, Obj(h, iovals_dict),
                           Obj(h, iospec),
                           KeySeq(DOMAIN Obj(h, iovals_dict).d, order),
                           order)

\* coerce_dict: result_iovals = {} is a new dict that the loop fills.
heap_coerce_dict(self, h, iovals_dict, iospec, order) ==
    IF Obj(h, iovals_dict).k # "dict"
    THEN [h |-> h, v |-> Raise("AttributeError")]
    ELSE LET result_iovals == New(h, Dict(EmptyMap))
         IN  heap_coerce_items(self, result_iovals.h, result_iovals.v,
                               Obj(h, iovals_dict), Obj(h, iospec),
                               KeySeq(DOMAIN Obj(h, iovals_dict).d, order),
                               order)

\* coerce_list: the two dicts made from the list-likes are new objects, and
\* so is the list made of the result.
heap_coerce_list(self, h, iovals_list, iospec_obj, order) ==
    LET made == make_dict_from_listlike(Obj(h, iovals_list), -1, order)
        iovals_dict == New(h, made)
        iospec ==
            New(iovals_dict.h,
                make_dict_from_listlike(Obj(h, iospec_obj),
                                        Len0(Obj(h, iovals_list)), NoOrder))
    IN  IF IsExc(made) THEN [h |-> h, v |-> made]
        ELSE heap_list_from_dict(
                 heap_coerce_dict(self, iospec.h, iovals_dict.v, iospec.v,
                                  order))

heap_coerce_ioval(self, h, ioval, expected_type, order) ==
    IF is_container(Obj(h, expected_type), {"Mapping"})
    THEN heap_coerce_dict(self, h, ioval, expected_type, order)
    ELSE IF is_container(Obj(h, expected_type), {"Sequence", "ListOf"})
    THEN heap_coerce_list(self, h, ioval, expected_type, order)
    ELSE LET tables == [coercion_functions |->
                           Obj(h, self.coercion_functions)]
             function == coercion_function(tables, expected_type)
             coerced == CallCoercion(function, Obj(h, ioval))
         IN  IF function = NotProvided \/ coerced = Obj(h, ioval)
             THEN [h |-> h, v |-> ioval]
             ELSE [h |-> h, v |-> coerced]

\* coerce on the instance whose attributes are the items of self.
heap_coerce(self, h, iovalue_item, order) ==
    LET combined_iospec ==
            heap_combine_iospecs(h, self.required, self.optional, order)
    IN  heap_coerce_ioval(self, combined_iospec.h, iovalue_item,
                          combined_iospec.v, order)

\* verify on the instance whose attributes are the items of self: the
\* combined iospec is built as in coerce; what follows reads its arguments
\* and stores only in the result dicts that difference_dict and
\* confirm_type_dict create, which the outcome holds as values.
heap_verify(self, h, iovalue_item, order) ==
    [h |-> heap_combine_iospecs(h, self.required, self.optional, order).h,
     v |-> iovalue_item]

\* The caller's objects: the two iospecs, the table of coercion functions
\* and the value; IOProcessor.__init__ keeps a copy of the table.
Caller(ioval) ==
    LET r == Alloc(<<>>, required)
        o == Alloc(r.h, optional)
        t == Alloc(o.h, coercion_functions)
        c == IF t.v = NotProvided THEN t ELSE New(t.h, Obj(t.h, t.v))
        v == Alloc(c.h, ioval)
    IN  [before |-> v.h, now |-> v.h,
         self |-> [required |-> r.v, optional |-> o.v,
                   coercion_functions |-> c.v],
         table |-> t.v, arg |-> v.v, result |-> None]

\* The objects after a call that ended with the heap and item of r.
After(call, r) == [call EXCEPT !.now = r.h, !.result = r.v]

\* The processors whose objects are held by reference.
InitHeap ==
    /\ required \in RequiredSpecs
    /\ optional \in {NotProvided, Dict("b" :> int), List(<<int, int>>)}
    /\ unlimited = FALSE
    /\ typecheck_functions = NotProvided
    /\ coercion_functions = CoercionFunctions
    /\ pc = "ready"
    /\ iovalue = None
    /\ outcome = WithCombined(Returned("__init__", None, NoChannels))
    /\ threads = NoThreads
    /\ manager = NoManager
    /\ heap = NoHeap

\* IOProcessor.coerce(iovalue).
HeapCoerce ==
    /\ pc = "ready"
    /\ \E ioval \in Values, order \in KeyOrders :
          /\ iovalue' = ioval
          /\ outcome' = WithCombined(coerce(Self, ioval, order))
          /\ \E call \in {Caller(ioval)} :
                heap' = After(call, heap_coerce(call.self, call.now,
                                                call.arg, order))
    /\ pc' = "done"
    /\ UNCHANGED <<required, optional, unlimited, typecheck_functions,
                   coercion_functions, threads, manager>>

\* IOProcessor.verify(iovalue).
HeapVerify ==
    /\ pc = "ready"
    /\ \E ioval \in Values, order \in KeyOrders :
          /\ iovalue' = ioval
          /\ outcome' = WithCombined(verify(Self, ioval))
          /\ \E call \in {Caller(ioval)} :
                heap' = After(call, heap_verify(call.self, call.now,
                                                call.arg, order))
    /\ pc' = "done"
    /\ UNCHANGED <<required, optional, unlimited, typecheck_functions,
                   coercion_functions, threads, manager>>

\* IOManager.process_input(iovalue): coerce, then verify of the result.
HeapProcessInput ==
    /\ pc = "ready"
    /\ \E ioval \in Values, order \in KeyOrders :
          /\ iovalue' = ioval
          /\ \E result \in {process_input(Manager, ioval, order)} :
                outcome' = WithCombined(result)
          /\ \E call \in {Caller(ioval)} :
                \E coerced \in {heap_coerce(call.self, call.now, call.arg,
                                            order)} :
                    heap' = After(call,
                                  IF IsExc(coerced.v) THEN coerced
                                  ELSE heap_verify(call.self, coerced.h,
                                                   coerced.v, order))
    /\ pc' = "done"
    /\ UNCHANGED <<required, optional, unlimited, typecheck_functions,
                   coercion_functions, threads, manager>>

\* IOManager.process_output(iovalue): verify, then coerce if it passed.
HeapProcessOutput ==
    /\ pc = "ready"
    /\ \E ioval \in Values, order \in KeyOrders :
          /\ iovalue' = ioval
          /\ \E result \in {process_output(Manager, ioval, order)} :
                /\ outcome' = WithCombined(result)
                /\ \E call \in {Caller(ioval)} :
                      \E verified \in {heap_verify(call.self, call.now,
                                                   call.arg, order)} :
                          heap' = After(call,
                                        IF result.calls[1].raised # "none"
                                        THEN verified
                                        ELSE heap_coerce(call.self,
                                                         verified.h,
                                                         call.arg, order))
    /\ pc' = "done"
    /\ UNCHANGED <<required, optional, unlimited, typecheck_functions,
                   coercion_functions, threads, manager>>

NextHeap == HeapCoerce \/ HeapVerify \/ HeapProcessInput \/ HeapProcessOutput

SpecHeap == InitHeap /\ [][NextHeap]_vars

\* ------------------------------------------- positions in nested objects

PathKeys == Keys \cup IdxKeys(MaxLen)

\* A key path: the keys and indices from the top of an object down to an
\* item.  The containers of the universe nest two deep.
Paths == {<<key>> : key \in PathKeys}
         \cup {<<key, inner>> : key \in PathKeys, inner \in PathKeys}

Front(path) == SubSeq(path, 1, Len(path) - 1)

Last(path) == path[Len(path)]

\* The container value has an item under the key (or at the index).
HasKey(node, key) ==
    CASE node.k = "dict" -> key \in DOMAIN node.d
      [] node.k = "list" -> key \in IdxKeys(Len(node.l))
      [] OTHER -> FALSE

Item(node, key) ==
    IF node.k = "dict" THEN node.d[key] ELSE node.l[IdxOf(key) + 1]

\* An iospec and a value are both mappings, or both sequences.
SameShape(iospec, ioval) ==
    \/ iospec.k = "dict" /\ ioval.k = "dict"
    \/ iospec.k \in {"list", "listof"} /\ ioval.k = "list"

\* The iospec declares the key for the value beside it: a mapping and a
\* sequence declare their own keys and indices, a homogeneous sequence
\* declares every index of the value.
Declares(iospec, ioval, key) ==
    IF iospec.k = "listof" THEN HasKey(ioval, key) ELSE HasKey(iospec, key)

Expected(iospec, key) ==
    IF iospec.k = "listof" THEN iospec.e ELSE Item(iospec, key)

\* Along the path the iospec and the value hold containers of the same shape
\* and both hold every key of the path.
RECURSIVE Aligned(_, _, _)
Aligned(iospec, ioval, path) ==
    \/ path = <<>>
    \/ /\ SameShape(iospec, ioval)
       /\ Declares(iospec, ioval, path[1])
       /\ HasKey(ioval, path[1])
       /\ Aligned(Expected(iospec, path[1]), Item(ioval, path[1]), Tail(path))

RECURSIVE SpecAt(_, _)
SpecAt(iospec, path) ==
    IF path = <<>> THEN iospec
    ELSE SpecAt(Expected(iospec, path[1]), Tail(path))

RECURSIVE HasPath(_, _)
HasPath(node, path) ==
    \/ path = <<>>
    \/ HasKey(node, path[1]) /\ HasPath(Item(node, path[1]), Tail(path))

RECURSIVE At(_, _)
At(node, path) ==
    IF path = <<>> THEN node ELSE At(Item(node, path[1]), Tail(path))

\* The iospec alone declares the path, whatever the value.
RECURSIVE SpecHasPath(_, _)
SpecHasPath(iospec, path) ==
    \/ path = <<>>
    \/ /\ iospec.k = "listof" \/ HasKey(iospec, path[1])
       /\ SpecHasPath(Expected(iospec, path[1]), Tail(path))

\* ------------------------------------------------ what a call ended with

Called(op) == pc = "done" /\ outcome.op = op

\* The combined iospec of the call that has ended.
CombinedSpec == outcome.combined_iospec

\* The channels of the verify call that has ended.
Channels == outcome.channels

Passed == outcome.raised = "none"

Failed == outcome.raised = "VerificationFailureError"

\* The output the raised error carries under a caption, None if it has no
\* such part.
Section(caption) ==
    LET parts == SelectSeq(outcome.message,
                           LAMBDA part : part.caption = caption)
    IN  IF parts = <<>> THEN None ELSE parts[1].output

\* The raised error carries an entry at the path of a section.
Carries(caption, path) == Failed /\ HasPath(Section(caption), path)

\* How the Missing section shows an expected iospec: a mapping key by key,
\* any other node by its name.
RECURSIVE MissingRepr(_)
MissingRepr(iospec) ==
    IF iospec.k = "dict"
    THEN Dict([key \in DOMAIN iospec.d |-> MissingRepr(iospec.d[key])])
    ELSE [k |-> "typename", of |-> iospec]

\* ------------------------------------------------------------------ C1

\* C1: verify has exactly two outcomes: it returns normally if and only if
\* the missing diff, the unknown diff (after the unlimited filter) and the
\* wrong-type result are all empty, and otherwise raises
\* VerificationFailureError; it ends with no other exception.
C1_TwoOutcomes ==
    Called("verify") =>
        /\ Passed \/ Failed
        /\ Passed <=> /\ Channels.missing = NoDifference
                      /\ Channels.unknown = NoDifference
                      /\ Channels.wrong_types = None

\* ------------------------------------------------------------------ C2

\* The key at the end of the path is declared by the iospec and absent from
\* the value, in containers of the same shape that are aligned down to it.
AbsentFrom(iospec, ioval, path) ==
    /\ Aligned(iospec, ioval, Front(path))
    /\ HasPath(ioval, Front(path))
    /\ SameShape(SpecAt(iospec, Front(path)), At(ioval, Front(path)))
    /\ Declares(SpecAt(iospec, Front(path)), At(ioval, Front(path)),
                Last(path))
    /\ ~HasKey(At(ioval, Front(path)), Last(path))

\* C2: a key (or index) declared in the required iospec and absent from the
\* value, at any depth where the value holds a container of the same shape,
\* makes verify fail with a VerificationFailureError whose Missing section
\* maps the key path to the expected iospec node, whatever its kind; a key
\* declared only in the optional iospec and absent from the value produces no
\* Missing entry.
C2_MissingEntry ==
    Called("verify") =>
        \A path \in Paths :
            /\ AbsentFrom(required, iovalue, path) =>
                  /\ Carries("Missing: ", path)
                  /\ At(Section("Missing: "), path)
                         = MissingRepr(SpecAt(required, path))
            /\ (/\ AbsentFrom(optional, iovalue, path)
                /\ ~SpecHasPath(required, path))
                  => ~Carries("Missing: ", path)

\* ------------------------------------------------------------------ C3

\* The key at the end of the path is held by the value and not declared by
\* the iospec, in containers of the same shape that are aligned down to it.
Undeclared(iospec, ioval, path) ==
    /\ Aligned(iospec, ioval, Front(path))
    /\ SameShape(SpecAt(iospec, Front(path)), At(ioval, Front(path)))
    /\ HasKey(At(ioval, Front(path)), Last(path))
    /\ ~Declares(SpecAt(iospec, Front(path)), At(ioval, Front(path)),
                 Last(path))

\* C3: with unlimited false, verify fails with a Not allowed entry for every
\* key (or index) that the value holds and the combined iospec does not
\* declare, at any depth where both are mappings or both are sequences; a
\* value all of whose keys are declared produces no Not allowed entry.
C3_NotAllowedEntry ==
    (Called("verify") /\ ~unlimited) =>
        /\ \A path \in Paths :
              Undeclared(CombinedSpec, iovalue, path)
                  => Carries("Not allowed: ", path)
        /\ (\A path \in Paths : ~Undeclared(CombinedSpec, iovalue, path))
              => (Failed => Section("Not allowed: ") = None)

\* ------------------------------------------------------------------ C4

\* C4: with unlimited true and a container as combined iospec, a top-level
\* key (or index) of the value that the combined iospec does not declare is
\* permitted, while an undeclared key nested under a declared top-level key
\* (under every index of the value, for a homogeneous sequence) still makes
\* verify fail with a Not allowed entry.
C4_UnlimitedTopLevelOnly ==
    (Called("verify") /\ unlimited
        /\ CombinedSpec.k \in {"dict", "list", "listof"}) =>
        \A path \in Paths :
            Undeclared(CombinedSpec, iovalue, path) =>
                IF Len(path) = 1
                THEN ~Carries("Not allowed: ", path)
                ELSE Carries("Not allowed: ", path)

\* ------------------------------------------------------------------ C5

Paths0 == Paths \cup {<<>>}

\* The wrong-type result of type confirmation has an entry at the path.
WrongAt(path) ==
    /\ Channels.wrong_types # None
    /\ HasPath(Channels.wrong_types, path)

NoWrongAt(path) == ~WrongAt(path)

\* A position that type confirmation reaches and where the combined iospec
\* holds a type handle for which no type-check function is registered.
LeafPosition(path) ==
    /\ Aligned(CombinedSpec, iovalue, path)
    /\ SpecAt(CombinedSpec, path).k = "type"
    /\ typecheck_function(Self, SpecAt(CombinedSpec, path)) = NotProvided

\* Null is allowed everywhere except as a direct element of a ListOf.
NullAllowedAt(path) ==
    \/ path = <<>>
    \/ SpecAt(CombinedSpec, Front(path)).k # "listof"

Conforms(ioval, type_obj, null_ok) ==
    \/ IsInstance(ioval, {type_obj.t})
    \/ type_obj = AnyType
    \/ ioval = None /\ null_ok

\* C5: at a leaf position with no registered type-check function, type
\* confirmation passes exactly when the value is an instance of the type
\* handle, or the iospec is AnyType, or the value is null and null is allowed
\* there; otherwise the position is reported as a wrong type with the pair
\* (expected iospec node, runtime type of the value).
C5_LeafRule ==
    Called("verify") =>
        \A path \in Paths0 :
            LeafPosition(path) =>
                IF Conforms(At(iovalue, path), SpecAt(CombinedSpec, path),
                            NullAllowedAt(path))
                THEN NoWrongAt(path)
                ELSE /\ WrongAt(path)
                     /\ At(Channels.wrong_types, path)
                            = WrongTypePair(SpecAt(CombinedSpec, path),
                                            At(iovalue, path))

\* As the code decides it: null is settled first, by whether null is allowed.
ConformsNullFirst(ioval, type_obj, null_ok) ==
    IF ioval = None
    THEN null_ok
    ELSE IsInstance(ioval, {type_obj.t}) \/ type_obj = AnyType

\* C5 amended: a null value passes exactly when null is allowed at the
\* position, whatever the iospec; a non-null value passes exactly when it is
\* an instance of the type handle or the iospec is AnyType; every other
\* position is reported with the pair (expected iospec node, runtime type).
C5_LeafRuleNullFirst ==
    Called("verify") =>
        \A path \in Paths0 :
            LeafPosition(path) =>
                IF ConformsNullFirst(At(iovalue, path),
                                     SpecAt(CombinedSpec, path),
                                     NullAllowedAt(path))
                THEN NoWrongAt(path)
                ELSE /\ WrongAt(path)
                     /\ At(Channels.wrong_types, path)
                            = WrongTypePair(SpecAt(CombinedSpec, path),
                                            At(iovalue, path))

\* Verify has reported a null element of a ListOf of AnyType as a wrong type.
C5_Witness ==
    /\ Called("verify")
    /\ \E path \in Paths :
          /\ LeafPosition(path)
          /\ At(iovalue, path) = None
          /\ SpecAt(CombinedSpec, path) = AnyType
          /\ ~NullAllowedAt(path)
          /\ At(Channels.wrong_types, path) = WrongTypePair(AnyType, None)

\* ------------------------------------------------------------------ C6

\* The value holds null at the path, inside a sequence that type
\* confirmation reaches and that the combined iospec declares as 'kind'.
NullElement(path, kind) ==
    /\ Aligned(CombinedSpec, iovalue, path)
    /\ SpecAt(CombinedSpec, Front(path)).k = kind
    /\ At(iovalue, path) = None

\* C6: a null element of a ListOf is rejected as a wrong type, so verify does
\* not pass, while a null element at a position of a positional sequence
\* passes; the prohibition is not inherited: a null leaf inside a mapping or
\* positional sequence that is itself an element of a ListOf passes.
C6_NullAsymmetryAnySchema ==
    Called("verify") =>
        \A path \in Paths :
            /\ NullElement(path, "listof") =>
                  /\ WrongAt(path)
                  /\ At(Channels.wrong_types, path).got = Type("NoneType")
                  /\ ~Passed
            /\ NullElement(path, "list") => NoWrongAt(path)
            /\ (/\ Len(path) = 2
                /\ CombinedSpec.k = "listof"
                /\ SpecAt(CombinedSpec, Front(path)).k \in {"dict", "list"}
                /\ LeafPosition(path)
                /\ At(iovalue, path) = None)
                  => NoWrongAt(path)

\* C6 amended: a null element of a ListOf is rejected as a wrong type, so
\* verify does not pass; a null element at a position of a positional
\* sequence passes exactly when the iospec at that position is a type handle
\* (a mapping or sequence iospec there rejects it as a wrong type); the
\* prohibition is not inherited: a null leaf inside a mapping or positional
\* sequence that is itself an element of a ListOf passes.
C6_NullAsymmetry ==
    Called("verify") =>
        \A path \in Paths :
            /\ NullElement(path, "listof") =>
                  /\ WrongAt(path)
                  /\ At(Channels.wrong_types, path).got = Type("NoneType")
                  /\ ~Passed
            /\ NullElement(path, "list") =>
                  IF SpecAt(CombinedSpec, path).k = "type"
                  THEN NoWrongAt(path)
                  ELSE /\ WrongAt(path)
                       /\ At(Channels.wrong_types, path).got
                              = Type("NoneType")
            /\ (/\ Len(path) = 2
                /\ CombinedSpec.k = "listof"
                /\ SpecAt(CombinedSpec, Front(path)).k \in {"dict", "list"}
                /\ LeafPosition(path)
                /\ At(iovalue, path) = None)
                  => NoWrongAt(path)

\* Verify has passed a list whose null element stands at a type handle of a
\* positional sequence.
C6_WitnessPositional ==
    /\ Called("verify")
    /\ Passed
    /\ \E path \in Paths :
          NullElement(path, "list") /\ SpecAt(CombinedSpec, path) = str

\* Verify has rejected a null element where a positional sequence declares
\* a mapping.
C6_WitnessContainerSchema ==
    /\ Called("verify")
    /\ Failed
    /\ \E path \in Paths :
          /\ NullElement(path, "list")
          /\ SpecAt(CombinedSpec, path).k = "dict"
          /\ Carries("Wrong type: ", path)

\* Verify has rejected a null element of a ListOf of a type handle.
C6_Witness ==
    /\ Called("verify")
    /\ \E path \in Paths :
          /\ NullElement(path, "listof")
          /\ SpecAt(CombinedSpec, path) = str
          /\ outcome.raised = "VerificationFailureError"
          /\ Carries("Wrong type: ", path)

\* Verify has passed a value with a null leaf inside an element of a ListOf.
C6_WitnessNotInherited ==
    /\ Called("verify")
    /\ Passed
    /\ CombinedSpec.k = "listof"
    /\ \E path \in Paths :
          Len(path) = 2 /\ LeafPosition(path) /\ At(iovalue, path) = None

\* ------------------------------------------------------------------ C7

\* C7: AnyType passes type confirmation whatever the value, at every
\* position, also where it stands in for a side that was not provided.
C7_AnyTypePasses ==
    Called("verify") =>
        \A path \in Paths0 :
            (LeafPosition(path) /\ SpecAt(CombinedSpec, path) = AnyType)
                => NoWrongAt(path)

\* C7 amended: AnyType passes type confirmation whatever the value at every
\* position, except that a null direct element of a ListOf of AnyType is
\* reported as a wrong type.
C7_AnyTypePassesButNullElement ==
    Called("verify") =>
        \A path \in Paths0 :
            (LeafPosition(path) /\ SpecAt(CombinedSpec, path) = AnyType)
                => (NoWrongAt(path)
                        <=> ~(At(iovalue, path) = None
                                /\ ~NullAllowedAt(path)))

\* Verify has passed a value holding a string where a mapping declares
\* AnyType, with nothing provided on either side for the other keys.
C7_Witness ==
    /\ Called("verify")
    /\ Passed
    /\ \E path \in Paths :
          /\ LeafPosition(path)
          /\ SpecAt(CombinedSpec, path) = AnyType
          /\ At(iovalue, path) = Str(<<"x">>)

\* ------------------------------------------------------------------ C8

\* The keys of the container at the path whose values are leaves of a wrong
\* type.
WrongKeys(path) ==
    {key \in PathKeys :
        /\ Len(path) < 2
        /\ LeafPosition(path \o <<key>>)
        /\ ~ConformsNullFirst(At(iovalue, path \o <<key>>),
                              SpecAt(CombinedSpec, path \o <<key>>),
                              NullAllowedAt(path \o <<key>>))}

\* The keys of the container at the path whose values are conforming leaves.
ConformingKeys(path) ==
    {key \in PathKeys :
        /\ Len(path) < 2
        /\ LeafPosition(path \o <<key>>)
        /\ ConformsNullFirst(At(iovalue, path \o <<key>>),
                             SpecAt(CombinedSpec, path \o <<key>>),
                             NullAllowedAt(path \o <<key>>))}

\* C8: when several keys of one container have a wrong type, the error that
\* verify raises carries a wrong-type entry for every one of them in its
\* nested result, and carries no entry for a key whose value conforms.
C8_WrongTypesAggregated ==
    Called("verify") =>
        \A path \in Paths0 :
            Cardinality(WrongKeys(path)) >= 2 =>
                /\ \A key \in WrongKeys(path) :
                      /\ Carries("Wrong type: ", path \o <<key>>)
                      /\ At(Section("Wrong type: "), path \o <<key>>)
                            = WrongTypePair(
                                  SpecAt(CombinedSpec, path \o <<key>>),
                                  At(iovalue, path \o <<key>>))
                /\ \A key \in ConformingKeys(path) :
                      ~Carries("Wrong type: ", path \o <<key>>)

\* ------------------------------------------------------------------ C9

BothMappings(iospec_a, iospec_b) ==
    iospec_a.k = "dict" /\ iospec_b.k = "dict"

\* The result is the key-by-key merge of the two mappings, one level deep.
MergedOneLevel(result, iospec_a, iospec_b) ==
    /\ result.k = "dict"
    /\ DOMAIN result.d = DOMAIN iospec_a.d \cup DOMAIN iospec_b.d
    /\ \A key \in DOMAIN iospec_a.d \ DOMAIN iospec_b.d :
          result.d[key] = iospec_a.d[key]
    /\ \A key \in DOMAIN iospec_b.d \ DOMAIN iospec_a.d :
          result.d[key] = iospec_b.d[key]

\* C9: combining two mappings yields a mapping whose key set is the union of
\* both key sets; a key of one side only maps to that side's node unchanged,
\* a key of both sides maps to the recursive combination of the two nodes,
\* so the sibling keys of nested required and optional mappings are all kept.
C9_MappingUnion ==
    (Called("combine") /\ BothMappings(required, optional)) =>
        /\ outcome.raised = "none"
        /\ MergedOneLevel(outcome.value, required, optional)
        /\ \A key \in DOMAIN required.d \cap DOMAIN optional.d :
              /\ outcome.value.d[key]
                    = combine_iospecs(required.d[key], optional.d[key])
              /\ BothMappings(required.d[key], optional.d[key])
                    => MergedOneLevel(outcome.value.d[key],
                                      required.d[key], optional.d[key])

\* Two mappings have been combined that share a key holding mappings with
\* different sibling keys, and each holds a key of its own.
C9_Witness ==
    /\ Called("combine")
    /\ BothMappings(required, optional)
    /\ \E key \in DOMAIN required.d \cap DOMAIN optional.d :
          /\ BothMappings(required.d[key], optional.d[key])
          /\ DOMAIN required.d[key].d # DOMAIN optional.d[key].d
          /\ DOMAIN optional.d[key].d # {}
    /\ DOMAIN required.d \ DOMAIN optional.d # {}

\* ----------------------------------------------------------------- C10

BothSequences(iospec_a, iospec_b) ==
    iospec_a.k = "list" /\ iospec_b.k = "list"

\* What the combination is when the two nodes are not merged.
RequiredWins(iospec_a, iospec_b) ==
    IF iospec_a # NotProvided THEN iospec_a
    ELSE IF iospec_b # NotProvided THEN iospec_b
    ELSE AnyType

\* Both iospecs hold a node at the path, below containers that are both
\* mappings or both positional sequences.
RECURSIVE BothDeclare(_, _, _)
BothDeclare(iospec_a, iospec_b, path) ==
    \/ path = <<>>
    \/ /\ BothMappings(iospec_a, iospec_b)
          \/ BothSequences(iospec_a, iospec_b)
       /\ HasKey(iospec_a, path[1])
       /\ HasKey(iospec_b, path[1])
       /\ BothDeclare(Item(iospec_a, path[1]), Item(iospec_b, path[1]),
                      Tail(path))

\* Required and optional hold different type handles at the path.
TypedDifferently(path) ==
    /\ BothDeclare(required, optional, path)
    /\ At(required, path).k = "type"
    /\ At(optional, path).k = "type"
    /\ At(required, path) # At(optional, path)

\* What the registered coercion function of a type handle makes of a value.
ConvertedBy(type_obj, ioval) ==
    IF type_obj = int /\ TypeOf(ioval) = "str" THEN Val("int")
    ELSE IF type_obj = str /\ TypeOf(ioval) = "int" THEN Str(<<"1">>)
    ELSE ioval

\* C10: when the two nodes are not both mappings and not both sequences,
\* combining returns the required node if one was provided, else the optional
\* node, else AnyType, and never raises; this holds at every nesting level,
\* so for a leaf key that the two iospecs type differently both verify and
\* coerce use the required type handle.
C10_RequiredWins ==
    /\ Called("combine") =>
          /\ outcome.raised = "none"
          /\ (~BothMappings(required, optional)
                /\ ~BothSequences(required, optional))
                => outcome.value = RequiredWins(required, optional)
          /\ \A path \in Paths :
                (/\ BothDeclare(required, optional, path)
                 /\ ~BothMappings(At(required, path), At(optional, path))
                 /\ ~BothSequences(At(required, path), At(optional, path)))
                    => /\ HasPath(outcome.value, path)
                       /\ At(outcome.value, path) = At(required, path)
    /\ Called("verify") =>
          \A path \in Paths :
              (TypedDifferently(path) /\ Aligned(required, iovalue, path))
                  => (NoWrongAt(path)
                        <=> Conforms(At(iovalue, path), At(required, path),
                                     TRUE))
    /\ (Called("coerce") /\ outcome.raised = "none") =>
          \A path \in Paths :
              (TypedDifferently(path) /\ Aligned(required, iovalue, path))
                  => At(outcome.value, path)
                        = ConvertedBy(At(required, path), At(iovalue, path))

\* A value has been coerced by the function of the required type handle at a
\* nested key where the optional type handle would have left it unchanged.
C10_Witness ==
    /\ Called("coerce")
    /\ outcome.raised = "none"
    /\ \E path \in Paths :
          /\ Len(path) = 2
          /\ TypedDifferently(path)
          /\ Aligned(required, iovalue, path)
          /\ At(outcome.value, path) # At(iovalue, path)
          /\ ConvertedBy(At(optional, path), At(iovalue, path))
                = At(iovalue, path)

\* Verify has reported a wrong type by the required type handle at a key
\* whose value the optional type handle accepts.
C10_WitnessVerify ==
    /\ Called("verify")
    /\ \E path \in Paths :
          /\ TypedDifferently(path)
          /\ Aligned(required, iovalue, path)
          /\ WrongAt(path)
          /\ Conforms(At(iovalue, path), At(optional, path), TRUE)

\* A required type handle has been combined with an optional mapping.
C10_WitnessCombine ==
    /\ Called("combine")
    /\ required.k = "type"
    /\ optional.k = "dict"
    /\ outcome.value = required

\* ----------------------------------------------------------------- C11

\* A positional sequence or a ListOf.
SequenceShaped(iospec) == iospec.k \in {"list", "listof"}

\* The length a sequence-shaped iospec brings to a combination: a ListOf has
\* none of its own.
OwnLength(iospec) == IF iospec.k = "list" THEN Len(iospec.l) ELSE 0

\* What a sequence-shaped iospec holds for the i-th position.
ElementAt(iospec, i) ==
    IF iospec.k = "listof" THEN iospec.e
    ELSE IF i <= Len(iospec.l) THEN iospec.l[i]
    ELSE NotProvided

Longer(m, n) == IF m >= n THEN m ELSE n

\* C11: combining two sequence-shaped iospecs (each a positional sequence or
\* a ListOf) returns a positional sequence whose length is the longer of the
\* two lengths and whose element i is the recursive combination of the two
\* sides' elements at index i, a ListOf supplying its element iospec at every
\* index and a side shorter than i contributing nothing.
C11_SequenceMerge ==
    (Called("combine") /\ SequenceShaped(required)
        /\ SequenceShaped(optional)) =>
        /\ outcome.raised = "none"
        /\ outcome.value.k = "list"
        /\ Len(outcome.value.l)
              = Longer(OwnLength(required), OwnLength(optional))
        /\ \A i \in 1 .. Len(outcome.value.l) :
              outcome.value.l[i]
                  = combine_iospecs(ElementAt(required, i),
                                    ElementAt(optional, i))

\* ----------------------------------------------------------------- C12

\* A type-check function is registered for exactly the type handle.
Registered(type_obj) ==
    /\ typecheck_functions.k = "dict"
    /\ type_obj.t \in DOMAIN typecheck_functions.d

\* A position that type confirmation reaches and where the combined iospec
\* holds a type handle with a registered type-check function.
HookPosition(path) ==
    /\ Aligned(CombinedSpec, iovalue, path)
    /\ SpecAt(CombinedSpec, path).k = "type"
    /\ Registered(SpecAt(CombinedSpec, path))

\* How the registered function ends for the value at the position.
HookSignal(path) ==
    typecheck_functions.d[SpecAt(CombinedSpec, path).t]
        .sig[TypeOf(At(iovalue, path))]

\* C12: a type-check function registered for exactly the type handle of a
\* leaf decides the outcome there by its signal: TypeCheckSuccessError makes
\* the value pass even where the default rule rejects it,
\* TypeCheckFailureError makes it a wrong type with the pair of the iospec
\* node and the value even where the default rule accepts it, and a normal
\* return leaves the outcome to the default rule.
C12_HookDecides ==
    Called("verify") =>
        \A path \in Paths0 :
            HookPosition(path) =>
                CASE HookSignal(path) = "TypeCheckSuccessError" ->
                        NoWrongAt(path)
                  [] HookSignal(path) = "TypeCheckFailureError" ->
                        /\ WrongAt(path)
                        /\ At(Channels.wrong_types, path)
                              = WrongTypePair(SpecAt(CombinedSpec, path),
                                              At(iovalue, path))
                  [] OTHER ->
                        NoWrongAt(path)
                            <=> ConformsNullFirst(
                                    At(iovalue, path),
                                    SpecAt(CombinedSpec, path),
                                    NullAllowedAt(path))

\* Verify has passed a str where int is declared, on the success signal of
\* the registered function.
C12_Witness ==
    /\ Called("verify")
    /\ Passed
    /\ \E path \in Paths :
          /\ HookPosition(path)
          /\ SpecAt(CombinedSpec, path) = int
          /\ At(iovalue, path) = Str(<<"x">>)
          /\ HookSignal(path) = "TypeCheckSuccessError"

\* Verify has reported an int where int is declared, on the failure signal.
C12_WitnessFailure ==
    /\ Called("verify")
    /\ Failed
    /\ \E path \in Paths0 :
          /\ HookPosition(path)
          /\ SpecAt(CombinedSpec, path) = int
          /\ At(iovalue, path) = Val("int")
          /\ HookSignal(path) = "TypeCheckFailureError"
          /\ Carries("Wrong type: ", path)

\* Verify has reported a str where int is declared, after the registered
\* function returned normally.
C12_WitnessReturn ==
    /\ Called("verify")
    /\ Failed
    /\ \E path \in Paths0 :
          /\ HookPosition(path)
          /\ SpecAt(CombinedSpec, path) = int
          /\ At(iovalue, path) = Str(<<"x">>)
          /\ HookSignal(path) = "return"
          /\ Carries("Wrong type: ", path)

\* ----------------------------------------------------------------- C13

\* No coercion function is registered at all.
NoCoercionFunctions ==
    \/ coercion_functions = NotProvided
    \/ coercion_functions.k = "dict" /\ DOMAIN coercion_functions.d = {}

\* C13: coerce never raises, for any value and any iospec, the values whose
\* shape does not match the iospec included; with no coercion function
\* registered it returns a value equal to its input.
C13_CoerceNeverRaises ==
    Called("coerce") =>
        /\ outcome.raised = "none"
        /\ NoCoercionFunctions => outcome.value = iovalue

\* ----------------------------------------------------------------- C14

\* The result is a mapping with the keys of the input; the keys the iospec
\* does not declare hold the input's values.
KeysKept(result, iospec, ioval) ==
    /\ result.k = "dict"
    /\ DOMAIN result.d = DOMAIN ioval.d
    /\ \A key \in DOMAIN ioval.d \ DOMAIN iospec.d :
          result.d[key] = ioval.d[key]

\* C14: coercing a mapping value against a mapping iospec returns a mapping
\* whose key set is exactly the key set of the input: a key the iospec
\* declares holds the recursive coercion of its value, a key it does not
\* declare holds the input value unchanged, and a key declared by the iospec
\* but absent from the value is never added.
C14_MappingKeysPreserved ==
    (Called("coerce") /\ CombinedSpec.k = "dict" /\ iovalue.k = "dict") =>
        /\ outcome.raised = "none"
        /\ KeysKept(outcome.value, CombinedSpec, iovalue)
        /\ \A key \in DOMAIN iovalue.d \cap DOMAIN CombinedSpec.d :
              /\ \E order \in KeyOrders :
                    outcome.value.d[key]
                        = coerce_ioval(Self, iovalue.d[key],
                                       CombinedSpec.d[key], order)
              /\ (CombinedSpec.d[key].k = "dict"
                    /\ iovalue.d[key].k = "dict")
                    => KeysKept(outcome.value.d[key], CombinedSpec.d[key],
                                iovalue.d[key])

\* ----------------------------------------------------------------- C15

\* C15: coercing a sequence value against a positional sequence or a ListOf
\* returns a sequence of the same length in which position i holds the
\* coercion of the input's element i, whether the input is shorter than, as
\* long as or longer than a positional iospec.
C15_SequenceLengthPreserved ==
    (Called("coerce") /\ SequenceShaped(CombinedSpec)
        /\ iovalue.k = "list") =>
        /\ outcome.raised = "none"
        /\ outcome.value.k = "list"
        /\ Len(outcome.value.l) = Len(iovalue.l)
        /\ \A i \in 1 .. Len(iovalue.l) :
              \E order \in KeyOrders :
                  outcome.value.l[i]
                      = coerce_ioval(Self, iovalue.l[i],
                                     ElementAt(CombinedSpec, i), order)

\* ----------------------------------------------------------------- C16

\* A position that coercion reaches and where the combined iospec holds a
\* type handle.
CoerceLeaf(path) ==
    /\ Aligned(CombinedSpec, iovalue, path)
    /\ SpecAt(CombinedSpec, path).k = "type"

\* A coercion function is registered for exactly the type handle.
HasCoercion(type_obj) ==
    /\ coercion_functions.k = "dict"
    /\ type_obj.t \in DOMAIN coercion_functions.d

\* The value the registered function returns, or that its
\* CoercionSuccessError carries, for the value at the position.
Produced(path) ==
    LET function == coercion_functions.d[SpecAt(CombinedSpec, path).t]
    IN  IF TypeOf(At(iovalue, path)) = function.from
        THEN function.to
        ELSE At(iovalue, path)

\* C16: at a leaf position coerce uses the coercion function registered for
\* exactly the type handle of the combined iospec there: the value the
\* function returns, or the value its CoercionSuccessError carries, becomes
\* the result; with no function registered for the handle (AnyType and an
\* absent iospec included) the input value itself is the result.
C16_LeafCoercion ==
    Called("coerce") =>
        /\ CombinedSpec.k = "type" => outcome.raised = "none"
        /\ outcome.raised = "none" =>
              \A path \in Paths0 :
                  CoerceLeaf(path) =>
                      /\ HasPath(outcome.value, path)
                      /\ At(outcome.value, path)
                            = IF HasCoercion(SpecAt(CombinedSpec, path))
                              THEN Produced(path)
                              ELSE At(iovalue, path)

\* Coerce has put the value carried by CoercionSuccessError at a nested
\* leaf.
C16_Witness ==
    /\ Called("coerce")
    /\ outcome.raised = "none"
    /\ \E path \in Paths :
          /\ Len(path) = 2
          /\ CoerceLeaf(path)
          /\ SpecAt(CombinedSpec, path) = str
          /\ HasCoercion(str)
          /\ coercion_functions.d["str"].how = "CoercionSuccessError"
          /\ At(iovalue, path) = Val("int")
          /\ At(outcome.value, path) = Str(<<"1">>)

\* Coerce has returned what the function for int returns for a str.
C16_WitnessReturn ==
    /\ Called("coerce")
    /\ CombinedSpec = int
    /\ HasCoercion(int)
    /\ iovalue = Str(<<"x">>)
    /\ outcome.value = Val("int")

\* Coerce has returned a str unchanged where int is declared and no function
\* is registered.
C16_WitnessUnregistered ==
    /\ Called("coerce")
    /\ outcome.raised = "none"
    /\ ~HasCoercion(int)
    /\ \E path \in Paths :
          /\ CoerceLeaf(path)
          /\ SpecAt(CombinedSpec, path) = int
          /\ At(iovalue, path) = Str(<<"x">>)
          /\ At(outcome.value, path) = Str(<<"x">>)

\* ------------------------------------------------------------------ C17

\* The calls that the manager method made on its processor.
Calls == outcome.calls

\* The method made the call 'op' as its i-th call, on the value 'arg'.
CallIs(i, op, arg) ==
    /\ Len(Calls) >= i
    /\ Calls[i].op = op
    /\ Calls[i].arg = arg

\* process_input coerced the value it was given, and what it verified, if
\* it came to verify, is the coerced value.
CoercedThenVerified ==
    /\ CallIs(1, "coerce", iovalue)
    /\ Len(Calls) <= 2
    /\ Len(Calls) = 1 => Calls[1].raised # "none"
    /\ Len(Calls) = 2 => /\ Calls[1].raised = "none"
                         /\ CallIs(2, "verify", Calls[1].value)

\* process_input returned the coerced value, and verify of the input
\* processor passes on it.
ReturnedCoerced ==
    /\ outcome.raised = "none"
    /\ Len(Calls) = 2
    /\ outcome.value = Calls[1].value
    /\ verify(Manager.input_processor, outcome.value).raised = "none"

\* C17: process_input coerces first and verifies the coerced value second,
\* and for every input it either returns the coerced value, which passes
\* verify of the input processor, or raises InputVerificationFailureError.
C17_CoerceThenVerify ==
    Called("process_input") =>
        /\ CoercedThenVerified
        /\ \/ ReturnedCoerced
           \/ outcome.raised = "InputVerificationFailureError"

\* The part of C17 that the code keeps: the order of the calls, and no
\* value is returned that verify does not pass.
C17_NeverReturnsUnverified ==
    Called("process_input") =>
        /\ CoercedThenVerified
        /\ outcome.raised = "none" => ReturnedCoerced

\* process_input ended with the exception of a coercion that met a value
\* of another shape than the iospec.
C17_WitnessCoerceRaises ==
    /\ Called("process_input")
    /\ Len(Calls) = 1
    /\ outcome.raised \in {"AttributeError", "TypeError"}

\* process_input returned a value that coercion changed and that the
\* original would not have passed.
C17_WitnessCoercedPasses ==
    /\ Called("process_input")
    /\ ReturnedCoerced
    /\ outcome.value # iovalue
    /\ verify(Manager.input_processor, iovalue).raised # "none"

\* ------------------------------------------------------------------ C18

\* The first call of process_output is verify of the value it was given.
VerifiedOriginal == CallIs(1, "verify", iovalue)

\* No coercion function has been invoked: the method made no call of
\* coerce, the only caller of the coercion functions.
NoCoercionInvoked == \A i \in 1..Len(Calls) : Calls[i].op # "coerce"

\* The call returned the coercion of the original value, and nothing was
\* verified after it.
ReturnedCoercionOfOriginal ==
    /\ Len(Calls) = 2
    /\ CallIs(2, "coerce", iovalue)
    /\ Calls[2].raised = "none"
    /\ outcome.raised = "none"
    /\ outcome.value = Calls[2].value

\* C18: process_output verifies the original value first; when that fails
\* the call raises OutputVerificationFailureError and no coercion function
\* has been invoked; when it passes the call returns the coercion of the
\* original value without verifying the coerced result.
C18_VerifyThenCoerce ==
    Called("process_output") =>
        /\ VerifiedOriginal
        /\ Calls[1].raised # "none" =>
              /\ outcome.raised = "OutputVerificationFailureError"
              /\ NoCoercionInvoked
        /\ Calls[1].raised = "none" => ReturnedCoercionOfOriginal

\* The part of C18 on a verification that fails, with any exception.
C18_FailureSkipsCoercion ==
    Called("process_output") =>
        /\ VerifiedOriginal
        /\ Calls[1].raised # "none" =>
              /\ outcome.raised = Calls[1].raised
              /\ NoCoercionInvoked

\* The part of C18 on a verification that passes.
C18_PassReturnsCoercion ==
    Called("process_output") =>
        (Calls[1].raised = "none" => ReturnedCoercionOfOriginal)

\* process_output ended with an exception of verify that is no
\* verification failure.
C18_WitnessOtherException ==
    /\ Called("process_output")
    /\ Len(Calls) = 1
    /\ outcome.raised \notin {"none", "OutputVerificationFailureError"}

\* ------------------------------------------------------------------ C19

\* verify was called with unlimited false on a list value against the list
\* iospec, and the other iospec was not given.
ListAgainst(iospec, other) ==
    /\ Called("verify")
    /\ ~unlimited
    /\ other = NotProvided
    /\ iospec.k = "list"
    /\ iovalue.k = "list"

\* The indices from 'from' up to, and without, 'to'.
Indices(from, to) == {IdxKey(i) : i \in from .. (to - 1)}

\* The value passes the structural checks: nothing is missing and nothing
\* is unknown.
StructurePasses ==
    /\ Channels.missing = NoDifference
    /\ Channels.unknown = NoDifference

\* The first m items of a list iospec.
Prefix(iospec, m) == List(SubSeq(iospec.l, 1, m))

\* C19 (as stated): against a required list iospec of length n, with no
\* optional iospec and unlimited false, a list value passes the structural
\* checks only if its length is n: a shorter value fails with the absent
\* indices in Missing, a longer value fails with the extra indices in Not
\* allowed; against the same iospec given as optional, a shorter value
\* passes (it has no entry for the absent indices, and passes whenever it
\* passes against the iospec cut to its length) and a longer value fails
\* with the extra indices in Not allowed.
C19_ExactLength ==
    LET m == Len(iovalue.l)
    IN  /\ ListAgainst(required, optional) =>
              LET n == Len(required.l)
              IN  /\ StructurePasses => m = n
                  /\ \A index \in Indices(m, n) :
                         Carries("Missing: ", <<index>>)
                  /\ \A index \in Indices(n, m) :
                         Carries("Not allowed: ", <<index>>)
        /\ ListAgainst(optional, required) =>
              LET n == Len(optional.l)
                  cut == [Self EXCEPT !.optional = Prefix(optional, m)]
              IN  /\ m < n =>
                         /\ Channels.missing = NoDifference
                         /\ \A index \in Indices(m, n) :
                                ~HasPath(Channels.unknown, <<index>>)
                         /\ verify(cut, iovalue).raised = "none" => Passed
                  /\ \A index \in Indices(n, m) :
                         Carries("Not allowed: ", <<index>>)

\* The part of C19 that the code keeps: the same statement on the diffs
\* that verify computes, whatever exception the call ends with.
C19_ExactLengthOfDiffs ==
    LET m == Len(iovalue.l)
    IN  /\ ListAgainst(required, optional) =>
              LET n == Len(required.l)
              IN  /\ StructurePasses => m = n
                  /\ \A index \in Indices(m, n) :
                         HasPath(Channels.missing, <<index>>)
                  /\ \A index \in Indices(n, m) :
                         HasPath(Channels.unknown, <<index>>)
        /\ ListAgainst(optional, required) =>
              LET n == Len(optional.l)
                  cut == [Self EXCEPT !.optional = Prefix(optional, m)]
              IN  /\ m < n =>
                         /\ Channels.missing = NoDifference
                         /\ \A index \in Indices(m, n) :
                                ~HasPath(Channels.unknown, <<index>>)
                         /\ verify(cut, iovalue).raised = "none" => Passed
                  /\ \A index \in Indices(n, m) :
                         HasPath(Channels.unknown, <<index>>)

\* A value shorter than the required list did not end with a verification
\* failure.
C19_WitnessShorterNoFailure ==
    /\ ListAgainst(required, optional)
    /\ Len(iovalue.l) < Len(required.l)
    /\ ~Failed

\* A value shorter than the optional list passed.
C19_WitnessShorterOptionalPasses ==
    /\ ListAgainst(optional, required)
    /\ Len(iovalue.l) < Len(optional.l)
    /\ Passed

\* ------------------------------------------------------------------ C20

\* The captions of the sections, in their order.
Captions == <<"Missing: ", "Not allowed: ", "Wrong type: ">>

\* The channel that a section shows is non-empty.
NonEmpty(caption) ==
    CASE caption = "Missing: " -> Channels.missing # NoDifference
      [] caption = "Not allowed: " -> Channels.unknown # NoDifference
      [] caption = "Wrong type: " -> Channels.wrong_types # None

\* The texts that the lines of the message start with.
LineTexts == [i \in 1 .. Len(outcome.message) |-> outcome.message[i].caption]

\* C20: the message of a failed verify is the error_msg of the processor
\* followed by the lines 'Missing: ', 'Not allowed: ' and 'Wrong type: ' in
\* that order, one line for each channel that is non-empty and none for a
\* channel that is empty; so it holds at least one such line.
C20_MessageSections ==
    (Called("verify") /\ Failed) =>
        /\ LineTexts = <<Self.error_msg>> \o SelectSeq(Captions, NonEmpty)
        /\ outcome.message[1].output = Str(<<>>)
        /\ Len(outcome.message) >= 2

\* A message of two sections, the third channel being empty.
C20_Witness ==
    /\ Called("verify")
    /\ Failed
    /\ Len(outcome.message) = 3
    /\ \E caption \in {"Missing: ", "Not allowed: ", "Wrong type: "} :
           ~NonEmpty(caption)

\* A message of all three sections.
C20_WitnessAll ==
    /\ Called("verify")
    /\ Failed
    /\ Len(outcome.message) = 4

\* ------------------------------------------------------------------ C21

C21_WitnessIdentifier ==
    /\ Called("coerce_input")
    /\ iovalue.d["value"].t = "UUID"
    /\ IsString(outcome.output_result.d["value"])

\* ------------------------------------------------------------------ C22

\* The call of the thread has ended.
CallEnded(thread) == threads.call[thread].at = "done"

\* What the call of the thread ends with when it runs alone.
Alone(thread) ==
    IF threads.call[thread].op = "verify"
    THEN {verify(Self, threads.call[thread].arg)}
    ELSE {coerce(Self, threads.call[thread].arg, order) :
             order \in KeyOrders}

\* C22: verify and coerce write no state of the instance: however two
\* calls on the same processor are interleaved, each ends with the return
\* value or the error it ends with when it runs alone.
C22_InterleavedAsAlone ==
    \A thread \in Threads :
        CallEnded(thread) => threads.call[thread].result \in Alone(thread)

\* Both calls have ended, on different values: the verify of the first
\* thread raised and the call of the second returned.
C22_Witness ==
    /\ \A thread \in Threads : CallEnded(thread)
    /\ threads.call[1].result # threads.call[2].result
    /\ threads.call[1].op = "verify"
    /\ threads.call[1].arg # threads.call[2].arg
    /\ threads.call[1].result.raised # "none"
    /\ threads.call[2].result.raised = "none"

\* ------------------------------------------------------------------ C23

\* What coerce of the same value ends with when the dicts of the call hold
\* their keys in the given order.
CoerceIn(order) == WithCombined(coerce(Self, iovalue, order))

\* C23: the outcome of combine, verify and coerce does not depend on the
\* order in which the keys of a dict are iterated.  combine_iospecs and
\* verify build dicts key by key whatever the order; for coerce the claim
\* says that the call ends the same way, with the same value, in every
\* order of the keys.
C23_KeyOrderIndependent ==
    Called("coerce") => \A order \in KeyOrders : CoerceIn(order) = outcome

\* coerce returned the keys of a dict value as a list, in their order.
C23_WitnessKeysAsList ==
    /\ Called("coerce")
    /\ iovalue.k = "dict"
    /\ outcome.raised = "none"
    /\ outcome.value.k = "list"
    /\ \E order \in KeyOrders : CoerceIn(order) # outcome

\* ------------------------------------------------------------------ C24

\* A position that type confirmation reaches and where the combined iospec
\* holds a mapping or a sequence.
ContainerPosition(path) ==
    /\ Aligned(CombinedSpec, iovalue, path)
    /\ SpecAt(CombinedSpec, path).k \in {"dict", "list", "listof"}

\* The value at the path is not a container of the shape of the iospec.
ShapeMismatch(path) ==
    /\ ContainerPosition(path)
    /\ ~SameShape(SpecAt(CombinedSpec, path), At(iovalue, path))

\* What the wrong-type pair of a container position names as expected: dict
\* for a mapping, the iospec object itself for a sequence.
ExpectedContainer(iospec) ==
    IF iospec.k = "dict" THEN Type("dict") ELSE iospec

\* C24: null is not allowed in place of a container: a value that is null or
\* otherwise not a mapping where the combined iospec is a mapping, or null,
\* text or otherwise not a sequence where the combined iospec is a list or a
\* ListOf, makes verify fail with a wrong-type entry at that position, the
\* pair (expected container, runtime type of the value), whether the iospec
\* was given as required or as optional.
C24_ContainerRejectsNull ==
    Called("verify") =>
        \A path \in Paths0 :
            ShapeMismatch(path) =>
                /\ Carries("Wrong type: ", path)
                /\ At(Section("Wrong type: "), path)
                      = WrongTypePair(
                            ExpectedContainer(SpecAt(CombinedSpec, path)),
                            At(iovalue, path))

\* The same on the result of type confirmation, whatever verify then raises:
\* the position is in the wrong-type result and verify does not pass.
C24_ContainerRejectsNullInResult ==
    Called("verify") =>
        \A path \in Paths0 :
            ShapeMismatch(path) =>
                /\ WrongAt(path)
                /\ At(Channels.wrong_types, path)
                      = WrongTypePair(
                            ExpectedContainer(SpecAt(CombinedSpec, path)),
                            At(iovalue, path))
                /\ ~Passed

\* With C24 on every call that does not end with the AttributeError of a
\* list node in the missing result.
C24_ContainerRejectsNullUnlessAttributeError ==
    outcome.raised # "AttributeError" => C24_ContainerRejectsNull

\* Verify has failed with a wrong-type entry for a null value where only the
\* optional iospec declares a sequence.
C24_Witness ==
    /\ Called("verify")
    /\ Failed
    /\ \E path \in Paths :
          /\ ShapeMismatch(path)
          /\ At(iovalue, path) = None
          /\ SpecAt(CombinedSpec, path).k \in {"list", "listof"}
          /\ HasPath(optional, path)
          /\ ~HasPath(required, path)
          /\ Carries("Wrong type: ", path)

\* Verify has failed with a wrong-type entry for a null value where the
\* required iospec declares a mapping.
C24_WitnessRequiredMapping ==
    /\ Called("verify")
    /\ Failed
    /\ \E path \in Paths :
          /\ ShapeMismatch(path)
          /\ At(iovalue, path) = None
          /\ SpecAt(CombinedSpec, path).k = "dict"
          /\ HasPath(required, path)
          /\ Carries("Wrong type: ", path)

\* Verify has failed with a wrong-type entry for a text where a sequence is
\* declared.
C24_WitnessText ==
    /\ Called("verify")
    /\ Failed
    /\ \E path \in Paths :
          /\ ShapeMismatch(path)
          /\ At(iovalue, path).k = "val"
          /\ At(iovalue, path).t = "str"
          /\ SpecAt(CombinedSpec, path).k \in {"list", "listof"}
          /\ Carries("Wrong type: ", path)

\* Verify has failed with a wrong-type entry for a null value given for a
\* mapping at the top.
C24_WitnessTop ==
    /\ Called("verify")
    /\ Failed
    /\ iovalue = None
    /\ CombinedSpec.k = "dict"
    /\ Section("Wrong type: ") = WrongTypePair(Type("dict"), None)

\* ------------------------------------------------------------------ C25

\* What verify of the same value ends with on the processor that differs in
\* its unlimited flag alone.
VerifyWithUnlimited(flag) ==
    WithCombined(verify([Self EXCEPT !.unlimited = flag], iovalue))

\* C25: when the combined iospec is a type handle or AnyType, the unlimited
\* flag has no effect: verify of a value ends the same way, with the same
\* channels, with unlimited true and with unlimited false, and a value of a
\* wrong type is rejected with unlimited true too.
C25_UnlimitedNoEffectOnLeaf ==
    (Called("verify") /\ CombinedSpec.k = "type") =>
        /\ VerifyWithUnlimited(~unlimited) = outcome
        /\ ~ConformsNullFirst(iovalue, CombinedSpec, TRUE) =>
              /\ Failed
              /\ Section("Wrong type: ")
                    = WrongTypePair(CombinedSpec, iovalue)

\* Verify with unlimited true has rejected a value of a wrong type given for
\* a type handle.
C25_Witness ==
    /\ Called("verify")
    /\ unlimited
    /\ CombinedSpec = int
    /\ iovalue = Str(<<"x">>)
    /\ Failed
    /\ Section("Wrong type: ") = WrongTypePair(int, iovalue)

\* Verify with unlimited true has passed a container given for AnyType.
C25_WitnessAnyType ==
    /\ Called("verify")
    /\ unlimited
    /\ CombinedSpec = AnyType
    /\ iovalue.k = "dict"
    /\ Passed

\* ------------------------------------------------------------------ C26

\* A difference result has no entry at the path, nor beneath it.
NoEntry(result, path) ==
    IF path = <<>> THEN result = NoDifference ELSE ~HasPath(result, path)

\* A position that type confirmation reaches, where the combined iospec holds
\* a type handle other than AnyType and the value holds a container.
ContainerAtLeaf(path) ==
    /\ LeafPosition(path)
    /\ SpecAt(CombinedSpec, path) # AnyType
    /\ At(iovalue, path).k \in {"dict", "list"}

\* C26: the difference records absence only.  Where the value holds a
\* non-container or a container of the other shape and the combined iospec a
\* mapping or a sequence, or the value holds a container and the iospec a
\* type handle, the position is in the wrong-type result, the missing result
\* has no entry at it or beneath it, and neither has the unknown result.
C26_DifferenceRecordsAbsenceOnly ==
    Called("verify") =>
        \A path \in Paths0 :
            (ShapeMismatch(path) \/ ContainerAtLeaf(path)) =>
                /\ WrongAt(path)
                /\ At(Channels.wrong_types, path).k = "pair"
                /\ NoEntry(Channels.missing, path)
                /\ NoEntry(Channels.unknown, path)

\* Verify has found only a wrong type where the required iospec declares a
\* mapping with keys and the value holds a text.
C26_Witness ==
    /\ Called("verify")
    /\ Failed
    /\ \E path \in Paths :
          /\ ShapeMismatch(path)
          /\ HasPath(required, path)
          /\ At(required, path).k = "dict"
          /\ DOMAIN At(required, path).d # {}
          /\ At(iovalue, path).k = "val"
          /\ Channels.missing = NoDifference
          /\ Channels.unknown = NoDifference
          /\ Carries("Wrong type: ", path)

\* Verify has found only a wrong type where the iospec declares a type handle
\* and the value holds a container that is not empty.
C26_WitnessContainerAtLeaf ==
    /\ Called("verify")
    /\ Failed
    /\ \E path \in Paths :
          /\ ContainerAtLeaf(path)
          /\ Truthy(At(iovalue, path))
          /\ Channels.missing = NoDifference
          /\ Channels.unknown = NoDifference
          /\ Carries("Wrong type: ", path)

\* Verify has found only a wrong type where the iospec declares a sequence
\* and the value holds a mapping.
C26_WitnessOtherShape ==
    /\ Called("verify")
    /\ \E path \in Paths0 :
          /\ ShapeMismatch(path)
          /\ SpecAt(CombinedSpec, path).k \in {"list", "listof"}
          /\ At(iovalue, path).k = "dict"
          /\ Truthy(At(iovalue, path))
          /\ NoEntry(Channels.unknown, path)
          /\ WrongAt(path)

\* ------------------------------------------------------------------ C27

Constructed == pc = "done" /\ manager # NoManager

\* The kwargs that a direction of the manager takes its own settings from.
DirectionOf(processor) ==
    IF processor = "input_processor" THEN "input_kwargs" ELSE "output_kwargs"

\* The setting of an option of a processor by precedence: the kwargs of the
\* constructor for the direction, then the general argument of the
\* constructor if it is given, then the kwargs of the class for the
\* direction, then the general attribute of the class, then the default of
\* IOProcessor.
Setting(processor, option) ==
    LET direction == DirectionOf(processor)
    IN  IF option \in DOMAIN manager.args[direction]
        THEN manager.args[direction][option]
        ELSE IF option \in GeneralOptions
                /\ manager.args[option] # NotProvided
        THEN manager.args[option]
        ELSE IF option \in DOMAIN manager.cls[direction]
        THEN manager.cls[direction][option]
        ELSE IF option \in GeneralOptions
        THEN manager.cls[option]
        ELSE IOProcessorDefaults[option]

\* The manager of the same class and arguments without the settings of one
\* direction.
Without(direction) ==
    IOManager_init([manager.cls EXCEPT ![direction] = EmptyMap],
                   [manager.args EXCEPT ![direction] = EmptyMap])

\* C27: each option of the input processor and of the output processor is
\* resolved by layered precedence: the constructor's kwargs for the
\* direction override the constructor's general arguments, which override
\* the class's kwargs for the direction, which override the class's general
\* attributes; and the settings given for one direction do not change the
\* processor of the other direction.
C27_LayeredPrecedence ==
    Constructed =>
        /\ \A processor \in {"input_processor", "output_processor"} :
              \A option \in DOMAIN IOProcessorDefaults :
                  manager.self[processor][option]
                      = Setting(processor, option)
        /\ Without("output_kwargs").input_processor
              = manager.self.input_processor
        /\ Without("input_kwargs").output_processor
              = manager.self.output_processor

\* A manager has been constructed whose input processor holds the table of
\* the constructor's input kwargs and whose output processor holds the table
\* of the constructor's general argument, with tables given in the three
\* attributes of the class too.
C27_Witness ==
    /\ Constructed
    /\ manager.cls.typecheck_functions # NotProvided
    /\ "typecheck_functions" \in DOMAIN manager.cls.input_kwargs
    /\ "typecheck_functions" \in DOMAIN manager.cls.output_kwargs
    /\ manager.self.input_processor.typecheck_functions
          = TypecheckTableOf("args input")
    /\ manager.self.output_processor.typecheck_functions
          = TypecheckTableOf("args")
    /\ manager.self.input_processor.error_msg = "Invalid input."
    /\ manager.self.output_processor.error_msg = "Invalid output."

\* A manager has been constructed whose output processor holds the table of
\* the class's output kwargs, over the general attribute of the class, and
\* whose input processor holds the general attribute.
C27_WitnessClass ==
    /\ Constructed
    /\ manager.self.output_processor.coercion_functions
          = CoercionTableOf("class output")
    /\ manager.self.input_processor.coercion_functions
          = CoercionTableOf("class")

\* ------------------------------------------------------------------ C28

\* A call on objects held by reference has ended.
HeapCalled == pc = "done" /\ heap # NoHeap

\* The objects that existed before the call.
Old == 1 .. Len(heap.before)

\* The item that a path leads to from an item.
RECURSIVE ItemAt(_, _, _)
ItemAt(h, item, path) ==
    IF path = <<>> THEN item
    ELSE ItemAt(h, Item(Obj(h, item), path[1]), Tail(path))

\* The call has returned a coerced value.
ReturnedValue ==
    /\ outcome.op \in {"coerce", "process_input", "process_output"}
    /\ outcome.raised = "none"

\* The heap model and the model on values agree on what the call returned.
HeapAgrees ==
    (HeapCalled /\ ReturnedValue)
        => Deref(heap.now, heap.result) = outcome.value

C28_WitnessRaised ==
    /\ HeapCalled
    /\ outcome.op = "process_input"
    /\ outcome.raised = "InputVerificationFailureError"
    /\ Len(heap.now) > Len(heap.before)
    /\ iovalue.k = "dict"

\* coerce has returned the container it was given, where the iospec is a
\* type handle.
C28_WitnessSameObject ==
    /\ HeapCalled
    /\ outcome.op = "coerce"
    /\ outcome.raised = "none"
    /\ heap.result = heap.arg
    /\ heap.arg.k = "ref"

\* ------------------------------------------------------------------ C29

\* What the type-check function registered for the iospec at the path does
\* for the item of the value at the path, where type confirmation reaches
\* the path; "none" where no function is called.
HookEnds(ioval, path) ==
    IF /\ Aligned(CombinedSpec, ioval, path)
       /\ SpecAt(CombinedSpec, path).k = "type"
       /\ typecheck_function(Self, SpecAt(CombinedSpec, path)) # NotProvided
    THEN Signal(typecheck_function(Self, SpecAt(CombinedSpec, path)),
                At(ioval, path))
    ELSE "none"

\* A type-check function called on an item of the value raises an exception
\* that is no signal.
HookRaises(ioval, name) ==
    \E path \in Paths0 : HookEnds(ioval, path) = name

\* A coercion function registered for the iospec at a path raises an
\* exception for the item of the value at the path.
FunctionRaises(ioval, name) ==
    \E path \in Paths0 :
        /\ Aligned(CombinedSpec, ioval, path)
        /\ SpecAt(CombinedSpec, path).k = "type"
        /\ coercion_function(Self, SpecAt(CombinedSpec, path)) # NotProvided
        /\ CallCoercion(coercion_function(Self, SpecAt(CombinedSpec, path)),
                        At(ioval, path)) = Raise(name)

\* coerce of the value on the processor without its coercion functions
\* returns: no container of the value has a shape that makes coerce raise.
CoerceAloneReturns(ioval) ==
    \A order \in KeyOrders :
        coerce([Self EXCEPT !.coercion_functions = NotProvided], ioval,
               order).raised = "none"

\* The call has ended with the exception and without a value.
EndedWith(name) ==
    /\ outcome.raised = name
    /\ outcome.value = None
    /\ outcome.message = <<>>

\* C29: an exception of a type-check function or of a coercion function that
\* is no signal is not absorbed: verify ends with the exception of the
\* type-check function, coerce with the exception of the coercion function,
\* process_input with the one of the coercion function or, when coerce has
\* returned, with the one that the type-check function raises for the
\* coerced value, and process_output with the one of the type-check function
\* or, when verify has passed, with the one of the coercion function; none
\* of them returns a value or raises a verification failure.
C29_ExceptionsPropagate ==
    /\ (Called("verify") /\ HookRaises(iovalue, "ValueError"))
          => EndedWith("ValueError")
    /\ (Called("coerce") /\ FunctionRaises(iovalue, "KeyError"))
          => /\ outcome.raised # "none"
             /\ CoerceAloneReturns(iovalue) => EndedWith("KeyError")
    /\ (Called("process_input") /\ FunctionRaises(iovalue, "KeyError"))
          => /\ outcome.raised # "none"
             /\ Len(Calls) = 1
             /\ CoerceAloneReturns(iovalue) => EndedWith("KeyError")
    /\ (/\ Called("process_input")
        /\ Calls[1].raised = "none"
        /\ HookRaises(Calls[1].value, "ValueError"))
          => EndedWith("ValueError")
    /\ (Called("process_output") /\ HookRaises(iovalue, "ValueError"))
          => EndedWith("ValueError") /\ Len(Calls) = 1
    /\ (/\ Called("process_output")
        /\ Calls[1].raised = "none"
        /\ FunctionRaises(iovalue, "KeyError"))
          => EndedWith("KeyError")

\* verify has ended with the ValueError of a type-check function although
\* the value lacks a required key.
C29_Witness ==
    /\ Called("verify")
    /\ HookRaises(iovalue, "ValueError")
    /\ outcome.raised = "ValueError"
    /\ difference_ioval(required, iovalue, FALSE) # NoDifference

\* coerce has ended with the KeyError of a coercion function.
C29_WitnessCoerce ==
    /\ Called("coerce")
    /\ FunctionRaises(iovalue, "KeyError")
    /\ outcome.raised = "KeyError"

\* process_input has ended with the ValueError of a type-check function
\* after coerce had returned.
C29_WitnessProcessInput ==
    /\ Called("process_input")
    /\ Len(Calls) = 2
    /\ outcome.raised = "ValueError"

\* process_output has ended with the KeyError of a coercion function after
\* verify had passed.
C29_WitnessProcessOutput ==
    /\ Called("process_output")
    /\ Len(Calls) = 2
    /\ outcome.raised = "KeyError"

\* process_input and process_output have ended with the exception of the
\* first call they made.
C29_WitnessFirstCall ==
    /\ Called("process_input") \/ Called("process_output")
    /\ Len(Calls) = 1
    /\ outcome.raised \in {"KeyError", "ValueError"}

\* ------------------------------------------------------------------ C30

\* What verify of the same value ends with on the processor that differs in
\* having unlimited false.
Limited == VerifyWithUnlimited(FALSE)

\* An unknown result is another one cut down to some of its top-level keys;
\* cut down to none of them it is NoDifference.
RestrictionOf(result, whole) ==
    \/ result = NoDifference
    \/ /\ result.k = "dict"
       /\ whole.k = "dict"
       /\ DOMAIN result.d \subseteq DOMAIN whole.d
       /\ \A key \in DOMAIN result.d : result.d[key] = whole.d[key]

\* C30: unlimited only relaxes verify: a value that passes with unlimited
\* false passes with unlimited true, the missing result and the wrong-type
\* result are the same with both settings, and the unknown result with
\* unlimited true is the one with unlimited false cut down to some of its
\* top-level keys.
C30_UnlimitedOnlyRelaxes ==
    (Called("verify") /\ unlimited) =>
        \A limited \in {Limited} :
            /\ limited.raised = "none" => outcome.raised = "none"
            /\ Channels.missing = limited.channels.missing
            /\ Channels.wrong_types = limited.channels.wrong_types
            /\ RestrictionOf(Channels.unknown, limited.channels.unknown)

\* Verify with unlimited true has passed a value that fails with unlimited
\* false for a key that is not allowed.
C30_Witness ==
    /\ Called("verify")
    /\ unlimited
    /\ Passed
    /\ \E limited \in {Limited} :
          /\ limited.raised = "VerificationFailureError"
          /\ limited.channels.unknown # NoDifference

\* Verify with unlimited true has failed with a part of the unknown result
\* of unlimited false, and with the same wrong-type result.
C30_WitnessPart ==
    /\ Called("verify")
    /\ unlimited
    /\ Failed
    /\ Channels.unknown # NoDifference
    /\ Channels.wrong_types # None
    /\ Channels.unknown # Limited.channels.unknown

====
